---- MODULE Spec2Model ----
(***************************************************************************)
(* lychee-meta-tool: the generic-title classifier (backend/models) and the *)
(* metadata query engine (backend/db, backend/handlers).                   *)
(*                                                                         *)
(* Text is modelled as a sequence of one-character strings, so that the    *)
(* regular expressions, trimming and escaping of the Go code are computed  *)
(* character by character.  A nullable column or Go *string is a sequence  *)
(* of length 0 (NULL / nil) or 1 (the value).                              *)
(***************************************************************************)
EXTENDS Integers, Sequences, FiniteSets, TLC

VARIABLES
    driver,       \* DB.driver: "mysql", "postgres" or "sqlite"
    photos,       \* table photos: id -> [title, description, old_album_id, created_at]
    photo_album,  \* table photo_album: set of <<photo_id, album_id>> (primary key)
    album_title,  \* table base_albums: id -> title
    resp,         \* the HTTP response of the last request handled
    probe,        \* classifier harness: the photo fields under test
    verdict       \* classifier harness: what the code computed for probe

vars == <<driver, photos, photo_album, album_title, resp, probe, verdict>>

(***************************************************************************)
(* Bounds of the model.                                                    *)
(***************************************************************************)
MaxPad == 1        \* whitespace characters put before / after a probed title
MaxDigits == 2     \* length of the digit runs of the \d+ title families

(***************************************************************************)
(* Characters.                                                             *)
(***************************************************************************)
Digit == {"0", "1", "2", "3", "4", "5", "6", "7", "8", "9"}
Upper == {"A", "B", "C", "D", "E", "F", "G", "H", "I", "J", "K", "L", "M",
          "N", "O", "P", "Q", "R", "S", "T", "U", "V", "W", "X", "Y", "Z"}
Lower == {"a", "b", "c", "d", "e", "f", "g", "h", "i", "j", "k", "l", "m",
          "n", "o", "p", "q", "r", "s", "t", "u", "v", "w", "x", "y", "z"}
Alnum == Digit \cup Upper \cup Lower
Hex == Digit \cup {"a", "b", "c", "d", "e", "f", "A", "B", "C", "D", "E", "F"}
\* \w of Go's regexp (RE2): [0-9A-Za-z_]
Word == Alnum \cup {"_"}
\* unicode.IsSpace restricted to the characters of the model's alphabet
Space == {" ", "\t", "\n", "\r", "\f"}
Punct == {"-", ".", ":", "<", ">", "&", "'", "\"", "=", "/", "\\", ";", "#"}
Alphabet == Word \cup Space \cup Punct
\* '.' of a regular expression without the s flag: any character but newline
Dot == Alphabet \ {"\n"}

(***************************************************************************)
(* Regular-expression matching by position sets: each operator maps the    *)
(* set P of positions at which the match so far may stand to the set of    *)
(* positions after consuming one more element of the pattern.  Position p  *)
(* stands before character s[p]; Len(s)+1 is the end of the text.          *)
(***************************************************************************)
Lit(s, P, w) ==
    {p + Len(w) : p \in {q \in P : /\ q + Len(w) - 1 <= Len(s)
                                   /\ SubSeq(s, q, q + Len(w) - 1) = w}}

Rep(s, P, C, n) ==
    {p + n : p \in {q \in P : /\ q + n - 1 <= Len(s)
                              /\ \A i \in q..(q + n - 1) : s[i] \in C}}

Plus(s, P, C) ==
    {q \in 2..(Len(s) + 1) :
        \E p \in P : p < q /\ \A i \in p..(q - 1) : s[i] \in C}

Star(s, P, C) == P \cup Plus(s, P, C)

Opt(P, Q) == P \cup Q

AtEnd(s, P) == (Len(s) + 1) \in P

\* (\.\w+)? : an optional dot and word extension
Ext(s, P) == Opt(P, Plus(s, Lit(s, P, <<".">>), Word))

(***************************************************************************)
(* strings.TrimSpace, strings.HasPrefix                                    *)
(***************************************************************************)
TrimSpace(s) ==
    LET keep == {i \in 1..Len(s) : s[i] \notin Space}
    IN  IF keep = {} THEN <<>>
        ELSE LET lo == CHOOSE i \in keep : \A j \in keep : i <= j
                 hi == CHOOSE i \in keep : \A j \in keep : j <= i
             IN  SubSeq(s, lo, hi)

HasPrefix(s, w) == Len(s) >= Len(w) /\ SubSeq(s, 1, Len(w)) = w

(***************************************************************************)
(* backend/models: the title classifier.                                   *)
(***************************************************************************)
\* cameraPatterns[i] matched against t (regexp.MatchString, anchored ^...$)
MatchCameraPattern(i, t) ==
    LET start == {1} IN
    CASE i = 1 -> \* ^IMG_\d+(\.\w+)?$
           AtEnd(t, Ext(t, Plus(t, Lit(t, start, <<"I", "M", "G", "_">>), Digit)))
      [] i = 2 -> \* ^DSC_\d+(\.\w+)?$
           AtEnd(t, Ext(t, Plus(t, Lit(t, start, <<"D", "S", "C", "_">>), Digit)))
      [] i = 3 -> \* ^DSCN\d+(\.\w+)?$
           AtEnd(t, Ext(t, Plus(t, Lit(t, start, <<"D", "S", "C", "N">>), Digit)))
      [] i = 4 -> \* ^DSCF\d+(\.\w+)?$
           AtEnd(t, Ext(t, Plus(t, Lit(t, start, <<"D", "S", "C", "F">>), Digit)))
      [] i = 5 -> \* ^CDZ_\d+(\.\w+)?$
           AtEnd(t, Ext(t, Plus(t, Lit(t, start, <<"C", "D", "Z", "_">>), Digit)))
      [] i = 6 -> \* ^P\d{7}(\.\w+)?$
           AtEnd(t, Ext(t, Rep(t, Lit(t, start, <<"P">>), Digit, 7)))
      [] i = 7 -> \* ^\d{8}_\d{6}(\.\w+)?$
           AtEnd(t, Ext(t, Rep(t, Lit(t, Rep(t, start, Digit, 8), <<"_">>), Digit, 6)))
      [] i = 8 -> \* ^IMG-\d{8}-WA\d{4}(\.\w+)?$
           AtEnd(t, Ext(t, Rep(t, Lit(t, Rep(t, Lit(t, start, <<"I", "M", "G", "-">>),
                                              Digit, 8),
                                      <<"-", "W", "A">>), Digit, 4)))
      [] i = 9 -> \* ^Screenshot.*(\.\w+)?$
           AtEnd(t, Ext(t, Star(t, Lit(t, start, <<"S", "c", "r", "e", "e", "n",
                                                   "s", "h", "o", "t">>), Dot)))

\* a slice that stops after the prefix patterns
cameraPatterns_Truncated == 1..5

\* the indices of the cameraPatterns slice
cameraPatterns == 1..9

\* -? : an optional hyphen
OptHyphen(t, P) == Opt(P, Lit(t, P, <<"-">>))

\* a pattern that takes the hyphens all together or not at all
uuidPattern_AllOrNone(t) ==
    LET dashed == Rep(t, Lit(t, Rep(t, Lit(t, Rep(t, Lit(t, Rep(t, Lit(t,
                      Rep(t, {1}, Hex, 8), <<"-">>), Hex, 4), <<"-">>), Hex, 4),
                      <<"-">>), Hex, 4), <<"-">>), Hex, 12)
        plain == Rep(t, {1}, Hex, 32)
    IN  AtEnd(t, Ext(t, dashed \cup plain))

\* ^[0-9a-fA-F]{8}-?[0-9a-fA-F]{4}-?[0-9a-fA-F]{4}-?[0-9a-fA-F]{4}-?[0-9a-fA-F]{12}(\.\w+)?$
uuidPattern(t) ==
    LET g1 == OptHyphen(t, Rep(t, {1}, Hex, 8))
        g2 == OptHyphen(t, Rep(t, g1, Hex, 4))
        g3 == OptHyphen(t, Rep(t, g2, Hex, 4))
        g4 == OptHyphen(t, Rep(t, g3, Hex, 4))
    IN  AtEnd(t, Ext(t, Rep(t, g4, Hex, 12)))

\* a classifier that matches the title as given, without trimming it
IsGenericTitle_NoTrim(title) ==
    IF title = <<>> THEN TRUE
    ELSE IF uuidPattern(title) THEN TRUE
    ELSE IF \E i \in cameraPatterns : MatchCameraPattern(i, title) THEN TRUE
    ELSE IF HasPrefix(title, <<"I", "D", "G", "_">>) THEN TRUE
    ELSE FALSE

\* a classifier that also takes a title of digits alone for a camera name
IsGenericTitle_DigitsToo(title) ==
    LET t == TrimSpace(title) IN
    IF t = <<>> THEN TRUE
    ELSE IF uuidPattern(t) THEN TRUE
    ELSE IF \E i \in cameraPatterns : MatchCameraPattern(i, t) THEN TRUE
    ELSE IF HasPrefix(t, <<"I", "D", "G", "_">>) THEN TRUE
    ELSE \A k \in 1..Len(t) : t[k] \in Digit

\* models.IsGenericTitle
IsGenericTitle(title) ==
    IF title = <<>> THEN TRUE
    ELSE LET t == TrimSpace(title) IN
         IF t = <<>> THEN TRUE
         ELSE IF uuidPattern(t) THEN TRUE
         ELSE IF \E i \in cameraPatterns : MatchCameraPattern(i, t) THEN TRUE
         ELSE IF HasPrefix(t, <<"I", "D", "G", "_">>) THEN TRUE
         ELSE FALSE

\* Photo.hasGenericTitle
hasGenericTitle(p) == IF p.title = <<>> THEN TRUE ELSE IsGenericTitle(p.title)

\* Photo.hasEmptyDescription: Description == nil || *Description == ""
hasEmptyDescription(p) == p.description = <<>> \/ p.description[1] = <<>>

\* Photo.NeedsMetadata
NeedsMetadata(p) == hasGenericTitle(p) \/ hasEmptyDescription(p)

(***************************************************************************)
(* backend/db: the eligibility predicate of GetPhotosNeedingMetadata.      *)
(*                                                                         *)
(* The WHERE clause is a disjunction; it is modelled as the sequence of    *)
(* its disjuncts.  A REGEXP disjunct is named by the part of its pattern   *)
(* before the extension group (re) and by the number of backslashes the    *)
(* query text holds in front of '.' and 'w' in the extension group (bs):   *)
(* the query is a Go raw string, so `(\\.\\w+)?` holds two.                *)
(***************************************************************************)
WhereClauses ==
    << [op |-> "EQ_EMPTY"],                            \* p.title = ''
       [op |-> "IS_NULL"],                             \* p.title IS NULL
       [op |-> "REGEXP", re |-> "three", bs |-> 2],    \* ^[A-Za-z0-9]{3}_[0-9]+
       [op |-> "REGEXP", re |-> "pseries", bs |-> 2],  \* ^P[0-9]{7}
       [op |-> "REGEXP", re |-> "timestamp", bs |-> 2],\* ^[0-9]{8}_[0-9]{6}
       [op |-> "REGEXP", re |-> "whatsapp", bs |-> 2], \* ^IMG-[0-9]{8}-WA[0-9]{4}
       [op |-> "REGEXP", re |-> "screenshot", bs |-> 2],\* ^Screenshot.*
       [op |-> "REGEXP", re |-> "uuid", bs |-> 2] >>   \* ^hex{8}-?hex{4}-?...

\* strings.ReplaceAll(query, "REGEXP", "~")
convertToPostgreSQL(query) ==
    [i \in DOMAIN query |->
        IF query[i].op = "REGEXP" THEN [query[i] EXCEPT !.op = "~"] ELSE query[i]]

\* The text each strings.ReplaceAll of convertToSQLite searches for.  The
\* search strings are interpreted Go literals ("...(\\.\\w+)?$'"), so each
\* holds ONE backslash in front of '.' and 'w'.
SQLiteSearchKey(name) == [op |-> "REGEXP", re |-> name, bs |-> 1]

\* strings.ReplaceAll applied six times: a disjunct is replaced when its text
\* is the text searched for
convertToSQLite(query) ==
    [i \in DOMAIN query |->
        CASE query[i] = SQLiteSearchKey("three") ->
               [op |-> "GLOB_MINLEN", glob |-> <<"?", "?", "?", "_", "*">>, min |-> 5]
          [] query[i] = SQLiteSearchKey("pseries") ->
               [op |-> "GLOB", glob |-> <<"P", "*">>]
          [] query[i] = SQLiteSearchKey("timestamp") ->
               [op |-> "GLOB", glob |-> <<"*", "_", "*">>]
          [] query[i] = SQLiteSearchKey("whatsapp") ->
               [op |-> "GLOB", glob |-> <<"I", "M", "G", "-", "*", "-", "W", "A", "*">>]
          [] query[i] = SQLiteSearchKey("screenshot") ->
               [op |-> "GLOB", glob |-> <<"S", "c", "r", "e", "e", "n", "s", "h", "o", "t", "*">>]
          [] query[i] = SQLiteSearchKey("uuid") ->
               [op |-> "LENGTH_IN", lens |-> {32, 36}]
          [] OTHER -> query[i]]

\* switch db.driver { case "postgres": ...; case "sqlite": ... }
DialectQuery(drv) ==
    CASE drv = "postgres" -> convertToPostgreSQL(WhereClauses)
      [] drv = "sqlite"   -> convertToSQLite(WhereClauses)
      [] OTHER            -> WhereClauses

(***************************************************************************)
(* The database engines behind db.Query, as far as the query text decides. *)
(***************************************************************************)
\* Backslashes left in front of '.' and 'w' once the server has read the
\* string literal: MySQL reads \\ in a literal as one backslash; PostgreSQL
\* (standard-conforming strings) keeps the literal as written.
LiteralBackslashes(drv, bs) == IF drv = "mysql" THEN bs \div 2 ELSE bs

\* The optional extension group as the regular-expression engine reads it
RegexExt(t, P, bs) ==
    CASE bs = 1 -> \* (\.\w+)? : a dot, then word characters
           Ext(t, P)
      [] bs = 2 -> \* (\\.\\w+)? : a backslash, any character, a backslash, w's
           Opt(P, Plus(t, Lit(t, Rep(t, Lit(t, P, <<"\\">>), Dot, 1), <<"\\">>), {"w"}))
      [] OTHER  -> \* (.w+)? : any character, then w's
           Opt(P, Plus(t, Rep(t, P, Dot, 1), {"w"}))

\* p.title REGEXP '<pattern>' / p.title ~ '<pattern>'
RegexMatch(re, bs, t) ==
    CASE re = "three" ->
           AtEnd(t, RegexExt(t, Plus(t, Lit(t, Rep(t, {1}, Alnum, 3), <<"_">>), Digit), bs))
      [] re = "pseries" ->
           AtEnd(t, RegexExt(t, Rep(t, Lit(t, {1}, <<"P">>), Digit, 7), bs))
      [] re = "timestamp" ->
           AtEnd(t, RegexExt(t, Rep(t, Lit(t, Rep(t, {1}, Digit, 8), <<"_">>), Digit, 6), bs))
      [] re = "whatsapp" ->
           AtEnd(t, RegexExt(t, Rep(t, Lit(t, Rep(t, Lit(t, {1}, <<"I", "M", "G", "-">>),
                                                  Digit, 8),
                                          <<"-", "W", "A">>), Digit, 4), bs))
      [] re = "screenshot" ->
           AtEnd(t, RegexExt(t, Star(t, Lit(t, {1}, <<"S", "c", "r", "e", "e", "n",
                                                     "s", "h", "o", "t">>), Dot), bs))
      [] re = "uuid" ->
           LET g1 == OptHyphen(t, Rep(t, {1}, Hex, 8))
               g2 == OptHyphen(t, Rep(t, g1, Hex, 4))
               g3 == OptHyphen(t, Rep(t, g2, Hex, 4))
               g4 == OptHyphen(t, Rep(t, g3, Hex, 4))
           IN  AtEnd(t, RegexExt(t, Rep(t, g4, Hex, 12), bs))

\* SQLite GLOB: '?' is any one character, '*' any run of characters
RECURSIVE GlobFrom(_, _, _, _)
GlobFrom(glob, k, t, P) ==
    IF k > Len(glob) THEN P
    ELSE GlobFrom(glob, k + 1, t,
                  CASE glob[k] = "?" -> {p + 1 : p \in {q \in P : q <= Len(t)}}
                    [] glob[k] = "*" -> {q \in 1..(Len(t) + 1) : \E p \in P : p <= q}
                    [] OTHER         -> Lit(t, P, <<glob[k]>>))

GlobMatch(glob, t) == AtEnd(t, GlobFrom(glob, 1, t, {1}))

\* One disjunct of the WHERE clause on a row's title (photos.title is NOT NULL)
EvalClause(drv, c, t) ==
    CASE c.op = "EQ_EMPTY"    -> t = <<>>
      [] c.op = "IS_NULL"     -> FALSE
      [] c.op \in {"REGEXP", "~"} -> RegexMatch(c.re, LiteralBackslashes(drv, c.bs), t)
      [] c.op = "GLOB"        -> GlobMatch(c.glob, t)
      [] c.op = "GLOB_MINLEN" -> GlobMatch(c.glob, t) /\ Len(t) >= c.min
      [] c.op = "LENGTH_IN"   -> Len(t) \in c.lens

\* db.Query returns an error when the statement uses an operator the engine
\* does not have: SQLite has no regexp() function behind REGEXP.
QueryRejected(drv, query) ==
    drv = "sqlite" /\ \E i \in DOMAIN query : query[i].op = "REGEXP"

\* WHERE ( ... OR ... ) on one row
WhereHolds(drv, query, p) == \E i \in DOMAIN query : EvalClause(drv, query[i], p.title)

\* Whether the ListNeedingMetadata query, run on dialect drv, selects photo p
QuerySelects(drv, p) ==
    LET query == DialectQuery(drv)
    IN  ~QueryRejected(drv, query) /\ WhereHolds(drv, query, p)

(***************************************************************************)
(* Inputs of the classifier harness.                                       *)
(***************************************************************************)
Drivers == {"mysql", "postgres", "sqlite"}

DigitCycle == <<"1", "2", "3", "4", "5", "6", "7", "8", "9", "0">>
\* a run of n digits: 1234567890123...
Digits(n) == [i \in 1..n |-> DigitCycle[((i - 1) % 10) + 1]]

HexDigits32 == <<"1", "2", "3", "e", "4", "5", "6", "7", "e", "8", "9", "b",
                 "1", "2", "d", "3", "A", "4", "5", "6", "4", "2", "6", "6",
                 "1", "4", "1", "7", "4", "0", "0", "0">>
HyphenIf(b) == IF b THEN <<"-">> ELSE <<>>
\* the 32 hex digits grouped 8-4-4-4-12, with a hyphen at each position in mask
UuidText(mask) ==
    SubSeq(HexDigits32, 1, 8) \o HyphenIf(1 \in mask) \o
    SubSeq(HexDigits32, 9, 12) \o HyphenIf(2 \in mask) \o
    SubSeq(HexDigits32, 13, 16) \o HyphenIf(3 \in mask) \o
    SubSeq(HexDigits32, 17, 20) \o HyphenIf(4 \in mask) \o
    SubSeq(HexDigits32, 21, 32)
HyphenMasks == SUBSET (1..4)
UuidTitles == {UuidText(m) : m \in HyphenMasks}
\* near misses of the UUID shape
UuidNearMisses ==
    { SubSeq(HexDigits32, 1, 31),                                   \* 31 digits
      SubSeq(HexDigits32, 1, 8) \o <<"-", "-">> \o SubSeq(HexDigits32, 9, 32),
      SubSeq(HexDigits32, 1, 7) \o <<"-">> \o SubSeq(HexDigits32, 8, 32),
      <<"g">> \o SubSeq(HexDigits32, 2, 32) }

Prefixes3 == { <<"I", "M", "G">>, <<"C", "D", "5">>, <<"D", "S", "Z">>,
               <<"C", "D", "Z">>, <<"D", "S", "C">>, <<"a", "1", "b">> }
DigitRuns == {Digits(n) : n \in 1..MaxDigits}
ThreePrefixTitles == {x \o <<"_">> \o d : x \in Prefixes3, d \in DigitRuns}
NikonFujiTitles ==
    {x \o d : x \in {<<"D", "S", "C", "N">>, <<"D", "S", "C", "F">>}, d \in DigitRuns}
ScreenshotWord == <<"S", "c", "r", "e", "e", "n", "s", "h", "o", "t">>
CameraTitles ==
    { <<"P">> \o Digits(7),
      Digits(8) \o <<"_">> \o Digits(6),
      <<"I", "M", "G", "-">> \o Digits(8) \o <<"-", "W", "A">> \o Digits(4),
      ScreenshotWord,
      ScreenshotWord \o <<" ", "2", "0", "2", "4", "-", "0", "1">>,
      ScreenshotWord \o <<"\n", "a", "t", " ", "1", "0">>,
      <<"I", "D", "G", "_">>,
      <<"I", "D", "G", "_", "x", " ", "y">> }
OtherTitles ==
    { <<>>,
      Digits(5),
      <<"P">> \o Digits(6),
      <<"P">> \o Digits(8),
      <<"1", "2", "_">> \o Digits(2),
      <<"I", "M", "G", "_">>,
      <<"i", "m", "g", "_", "1">>,
      <<"S", "u", "n", "s", "e", "t", " ", "o", "v", "e", "r", " ",
        "t", "h", "e", " ", "b", "a", "y">>,
      <<"P", "a", "r", "i", "s">>,
      <<"M", "y", " ", "s", "c", "r", "e", "e", "n", "s", "h", "o", "t">> }
CoreTitles ==
    ThreePrefixTitles \cup NikonFujiTitles \cup CameraTitles \cup OtherTitles
        \cup UuidTitles \cup UuidNearMisses

JpgExt == <<".", "j", "p", "g">>
PngExt == <<".", "p", "n", "g">>
Extensions == { <<>>, JpgExt, PngExt, <<".">> }

RECURSIVE PadsOfLen(_)
PadsOfLen(n) ==
    IF n = 0 THEN {<<>>}
    ELSE {<<c>> \o w : c \in {" ", "\n"}, w \in PadsOfLen(n - 1)}
Pads == UNION {PadsOfLen(n) : n \in 0..MaxPad}

ProbeTitles ==
    {a \o c \o e \o b : a \in Pads, c \in CoreTitles, e \in Extensions, b \in Pads}

SomeText == <<"T", "a", "k", "e", "n">>
\* Photo.Description: nil, "" or a text
ProbeDescriptions == { <<>>, << <<>> >>, <<SomeText>> }

NoVerdict == [kind |-> "none"]
NoProbe == [title |-> <<>>, description |-> <<>>]
NoResp == [op |-> "none"]

(***************************************************************************)
(* The classifier harness: one photo's fields are drawn, and the code's    *)
(* three decisions about it are computed.                                  *)
(***************************************************************************)
InitClassify ==
    /\ driver \in Drivers
    /\ probe \in [title : ProbeTitles, description : ProbeDescriptions]
    /\ verdict = NoVerdict
    /\ photos = << >>
    /\ photo_album = {}
    /\ album_title = << >>
    /\ resp = NoResp

\* a call of models.IsGenericTitle(probe.title)
ClassifyTitle ==
    /\ verdict = NoVerdict
    /\ verdict' = [kind |-> "title",
                   generic |-> IsGenericTitle(probe.title),
                   uuid |-> uuidPattern(TrimSpace(probe.title))]
    /\ UNCHANGED <<driver, photos, photo_album, album_title, resp, probe>>

\* a call of Photo.NeedsMetadata on the probe, and the query's WHERE clause
\* evaluated on a row holding the same fields
EvaluateEligibility ==
    /\ verdict = NoVerdict
    /\ verdict' = [kind |-> "eligibility",
                   needs |-> NeedsMetadata(probe),
                   selected |-> QuerySelects(driver, probe)]
    /\ UNCHANGED <<driver, photos, photo_album, album_title, resp, probe>>

NextClassify == ClassifyTitle \/ EvaluateEligibility

SpecClassify == InitClassify /\ [][NextClassify]_vars

(***************************************************************************)
(* Shapes of titles as the specification words them, written without the   *)
(* classifier's own patterns.                                              *)
(***************************************************************************)
HasExtension(t, k) == \* t[k..] is a dot followed by one or more word characters
    /\ k + 1 <= Len(t)
    /\ t[k] = "."
    /\ \A i \in (k + 1)..Len(t) : t[i] \in Word

\* body(u) holds of t itself or of t without a trailing dot+word extension
WithOptionalExtension(t, Body(_)) ==
    \/ Body(t)
    \/ \E k \in 1..Len(t) : HasExtension(t, k) /\ Body(SubSeq(t, 1, k - 1))

AllIn(t, lo, hi, C) == \A i \in lo..hi : t[i] \in C

\* ^[A-Za-z0-9]{3}_[0-9]+$
ShapeThreePrefix(t) ==
    /\ Len(t) >= 5
    /\ AllIn(t, 1, 3, Alnum)
    /\ t[4] = "_"
    /\ AllIn(t, 5, Len(t), Digit)

\* P and exactly 7 digits
ShapePSeries(t) == Len(t) = 8 /\ t[1] = "P" /\ AllIn(t, 2, 8, Digit)

\* 8 digits, underscore, 6 digits
ShapeTimestamp(t) ==
    Len(t) = 15 /\ AllIn(t, 1, 8, Digit) /\ t[9] = "_" /\ AllIn(t, 10, 15, Digit)

\* IMG-<8 digits>-WA<4 digits>
ShapeWhatsApp(t) ==
    /\ Len(t) = 19
    /\ SubSeq(t, 1, 4) = <<"I", "M", "G", "-">>
    /\ AllIn(t, 5, 12, Digit)
    /\ SubSeq(t, 13, 15) = <<"-", "W", "A">>
    /\ AllIn(t, 16, 19, Digit)

\* DSCN or DSCF and one or more digits
ShapeNikonFuji(t) ==
    /\ Len(t) >= 5
    /\ SubSeq(t, 1, 4) \in {<<"D", "S", "C", "N">>, <<"D", "S", "C", "F">>}
    /\ AllIn(t, 5, Len(t), Digit)

\* 32 hex digits grouped 8-4-4-4-12 with hyphens at exactly the positions in mask
ShapeUuidWithMask(t, mask) ==
    LET h(k) == IF k \in mask THEN 1 ELSE 0
        s2 == 9 + h(1)
        s3 == s2 + 4 + h(2)
        s4 == s3 + 4 + h(3)
        s5 == s4 + 4 + h(4)
    IN  /\ Len(t) = 32 + Cardinality(mask)
        /\ AllIn(t, 1, 8, Hex)
        /\ AllIn(t, s2, s2 + 3, Hex)
        /\ AllIn(t, s3, s3 + 3, Hex)
        /\ AllIn(t, s4, s4 + 3, Hex)
        /\ AllIn(t, s5, s5 + 11, Hex)
        /\ (1 \in mask) => t[9] = "-"
        /\ (2 \in mask) => t[s2 + 4] = "-"
        /\ (3 \in mask) => t[s3 + 4] = "-"
        /\ (4 \in mask) => t[s4 + 4] = "-"

AllOrNone == { {}, 1..4 }
ShapeUuidAllOrNone(t) == \E m \in AllOrNone : ShapeUuidWithMask(t, m)
ShapeUuidPartial(t) == \E m \in HyphenMasks \ AllOrNone : ShapeUuidWithMask(t, m)
ShapeUuidAnyHyphens(t) == \E m \in HyphenMasks : ShapeUuidWithMask(t, m)

Classified == verdict.kind = "title"
Trimmed == TrimSpace(probe.title)

(***************************************************************************)
(* Claims about the classifier and the eligibility predicate               *)
(* (checked under SpecClassify).                                           *)
(***************************************************************************)

\* C1: for every photo and every dialect, Photo.NeedsMetadata and the
\* eligibility predicate of the ListNeedingMetadata query agree.
C1_EligibilityAgrees ==
    verdict.kind = "eligibility" => verdict.needs = verdict.selected

\* C4: every title of the shape ^[A-Za-z0-9]{3}_[0-9]+$ is generic, and
\* appending .jpg or .png does not change the result.
C4_ThreePrefixGeneric ==
    (Classified /\ ShapeThreePrefix(probe.title)) =>
        /\ verdict.generic
        /\ \A e \in {JpgExt, PngExt} : IsGenericTitle(probe.title \o e) = verdict.generic

\* C5: IsGenericTitle decides on the trimmed title: the result for a title is
\* the result for the title with leading and trailing whitespace removed, and
\* it is true whenever the trimmed title is empty.
C5_TrimDecides ==
    Classified =>
        /\ verdict.generic = IsGenericTitle(Trimmed)
        /\ (Trimmed = <<>>) => verdict.generic

\* C5 witness: a camera title padded with whitespace on both sides has been
\* classified generic
C5_Witness ==
    /\ Classified
    /\ probe.title # Trimmed
    /\ Trimmed # <<>>
    /\ probe.title[1] \in Space
    /\ probe.title[Len(probe.title)] \in Space
    /\ verdict.generic

\* C6 (as claimed): the UUID rule accepts the 8-4-4-4-12 grouping only with
\* hyphens in all four positions or in none; with hyphens in only some
\* positions the title is not made generic by the UUID rule.
C6_UuidAllOrNone ==
    Classified =>
        /\ WithOptionalExtension(Trimmed, ShapeUuidAllOrNone) => verdict.uuid
        /\ WithOptionalExtension(Trimmed, ShapeUuidPartial) => ~verdict.uuid

\* C6 (amended): the UUID rule accepts the 8-4-4-4-12 grouping of hex digits
\* with each of the four hyphens independently present or absent, optionally
\* followed by a dot and word extension, and nothing else; every title it
\* accepts is generic.
C6_UuidAnyHyphens ==
    Classified =>
        /\ verdict.uuid = WithOptionalExtension(Trimmed, ShapeUuidAnyHyphens)
        /\ verdict.uuid => verdict.generic

\* C6 witness: a title with hyphens in only some positions has been classified
C6_Witness ==
    /\ Classified
    /\ WithOptionalExtension(Trimmed, ShapeUuidPartial)
    /\ Trimmed # probe.title
    /\ verdict.uuid
    /\ verdict.generic

\* the rules C7 lists
ListedRule(t) ==
    \/ t = <<>>
    \/ WithOptionalExtension(t, ShapeUuidAllOrNone)
    \/ WithOptionalExtension(t, ShapeThreePrefix)
    \/ WithOptionalExtension(t, ShapePSeries)
    \/ WithOptionalExtension(t, ShapeTimestamp)
    \/ WithOptionalExtension(t, ShapeWhatsApp)
    \/ HasPrefix(t, ScreenshotWord)
    \/ HasPrefix(t, <<"I", "D", "G", "_">>)

\* C7 (as claimed): a title is generic only if, trimmed, it is empty or
\* matches the UUID rule or one of the listed camera rules.
C7_OnlyListedRules ==
    (Classified /\ verdict.generic) => ListedRule(Trimmed)

\* C7 (amended): a title is generic only if, trimmed, it is empty, matches the
\* UUID rule (each hyphen optional), one of the listed camera rules, or is
\* DSCN or DSCF followed by digits (optional extension); digits-only titles
\* and prose are not generic.
C7_OnlyCodeRules ==
    Classified =>
        /\ verdict.generic =>
              \/ ListedRule(Trimmed)
              \/ WithOptionalExtension(Trimmed, ShapeUuidAnyHyphens)
              \/ WithOptionalExtension(Trimmed, ShapeNikonFuji)
        /\ (Trimmed # <<>> /\ AllIn(Trimmed, 1, Len(Trimmed), Digit)) => ~verdict.generic

\* C7 witness: a digits-only title has been classified not generic
C7_Witness ==
    /\ Classified
    /\ Trimmed = Digits(5)
    /\ ~verdict.generic

\* C8 (as claimed): every title of the P-series, timestamp and messaging-app
\* shapes (optional extension), every title beginning with Screenshot and
\* every title beginning with IDG_ is generic.
C8_RemainingFamilies ==
    (Classified /\ (\/ WithOptionalExtension(probe.title, ShapePSeries)
                    \/ WithOptionalExtension(probe.title, ShapeTimestamp)
                    \/ WithOptionalExtension(probe.title, ShapeWhatsApp)
                    \/ HasPrefix(probe.title, ScreenshotWord)
                    \/ HasPrefix(probe.title, <<"I", "D", "G", "_">>)))
        => verdict.generic

NoLineFeed(t) == \A i \in 1..Len(t) : t[i] # "\n"

\* C8 (amended): as claimed, but a title beginning with Screenshot is generic
\* when no line feed is left in it after trimming.
C8_RemainingFamiliesOneLine ==
    (Classified /\ (\/ WithOptionalExtension(probe.title, ShapePSeries)
                    \/ WithOptionalExtension(probe.title, ShapeTimestamp)
                    \/ WithOptionalExtension(probe.title, ShapeWhatsApp)
                    \/ HasPrefix(probe.title, ScreenshotWord) /\ NoLineFeed(Trimmed)
                    \/ HasPrefix(probe.title, <<"I", "D", "G", "_">>)))
        => verdict.generic

\* C8 witness: an IDG_ title with an arbitrary suffix has been classified
C8_Witness ==
    /\ Classified
    /\ HasPrefix(probe.title, <<"I", "D", "G", "_", "x", " ">>)
    /\ verdict.generic

(***************************************************************************)
(* backend/handlers/validation.go                                          *)
(***************************************************************************)
MinIDLength == 1
MaxIDLength == 64
MaxPhotoTitleLength == 255
MaxPhotoDescriptionLength == 2000
DefaultPhotoLimit == 1000
MaxPhotoLimit == 1000
MinPhotoOffset == 0
\* "The application enforces a maximum limit of 100 results per query"
\* (the database optimization guide)
DocumentedMaxLimit == 100

UpperSeq == <<"A", "B", "C", "D", "E", "F", "G", "H", "I", "J", "K", "L", "M",
              "N", "O", "P", "Q", "R", "S", "T", "U", "V", "W", "X", "Y", "Z">>
LowerSeq == <<"a", "b", "c", "d", "e", "f", "g", "h", "i", "j", "k", "l", "m",
              "n", "o", "p", "q", "r", "s", "t", "u", "v", "w", "x", "y", "z">>
\* case folding of the (?i) flag
Fold(c) == IF c \in Upper THEN LowerSeq[CHOOSE k \in 1..26 : UpperSeq[k] = c] ELSE c
FoldAll(t) == [i \in 1..Len(t) |-> Fold(t[i])]

\* every position of t: an unanchored pattern may start anywhere
Anywhere(t) == 1..(Len(t) + 1)

\* (?i)<script[^>]*>.*?</script>
scriptTagPattern(text) ==
    LET t == FoldAll(text)
        open == Lit(t, Star(t, Lit(t, Anywhere(t), <<"<", "s", "c", "r", "i", "p", "t">>),
                            Alphabet \ {">"}),
                    <<">">>)
    IN  Lit(t, Star(t, open, Dot), <<"<", "/", "s", "c", "r", "i", "p", "t", ">">>) # {}

\* (?i)javascript:
javascriptPattern(text) ==
    LET t == FoldAll(text)
    IN  Lit(t, Anywhere(t), <<"j", "a", "v", "a", "s", "c", "r", "i", "p", "t", ":">>) # {}

\* (?i)<[^>]*on\w+\s*=
dangerousHTMLPattern(text) ==
    LET t == FoldAll(text)
        tag == Star(t, Lit(t, Anywhere(t), <<"<">>), Alphabet \ {">"})
        handler == Plus(t, Lit(t, tag, <<"o", "n">>), Word)
    IN  Lit(t, Star(t, handler, Space), <<"=">>) # {}

containsDangerousContent(text) ==
    scriptTagPattern(text) \/ javascriptPattern(text) \/ dangerousHTMLPattern(text)

\* html.EscapeString on one character
EscapeChar(c) ==
    CASE c = "&"  -> <<"&", "a", "m", "p", ";">>
      [] c = "<"  -> <<"&", "l", "t", ";">>
      [] c = ">"  -> <<"&", "g", "t", ";">>
      [] c = "\"" -> <<"&", "#", "3", "4", ";">>
      [] c = "'"  -> <<"&", "#", "3", "9", ";">>
      [] OTHER    -> <<c>>

RECURSIVE EscapeString(_)
EscapeString(t) ==
    IF t = <<>> THEN <<>> ELSE EscapeChar(Head(t)) \o EscapeString(Tail(t))

\* strings.ReplaceAll(text, "\r\n", "\n") then strings.ReplaceAll(text, "\r", "\n")
RECURSIVE NormalizeLineEndings(_)
NormalizeLineEndings(t) ==
    IF t = <<>> THEN <<>>
    ELSE IF Len(t) >= 2 /\ t[1] = "\r" /\ t[2] = "\n"
         THEN <<"\n">> \o NormalizeLineEndings(SubSeq(t, 3, Len(t)))
    ELSE IF t[1] = "\r" THEN <<"\n">> \o NormalizeLineEndings(Tail(t))
    ELSE <<t[1]>> \o NormalizeLineEndings(Tail(t))

\* a sanitiser that trims and normalises but does not escape
sanitizeText_NoEscape(text) == NormalizeLineEndings(TrimSpace(text))

sanitizeText(text) == NormalizeLineEndings(EscapeString(TrimSpace(text)))

\* sanitizeQueryParam: strings.TrimSpace(html.EscapeString(param))
sanitizeQueryParam(param) == TrimSpace(EscapeString(param))

\* photoIDPattern / albumIDPattern: ^[a-zA-Z0-9_-]+$
IDPatternMatch(id) == id # <<>> /\ \A i \in 1..Len(id) : id[i] \in Alnum \cup {"_", "-"}

TrimSuffix(t, w) ==
    IF Len(t) >= Len(w) /\ SubSeq(t, Len(t) - Len(w) + 1, Len(t)) = w
    THEN SubSeq(t, 1, Len(t) - Len(w)) ELSE t

ImageExtensions ==
    << <<".", "j", "p", "g">>, <<".", "j", "p", "e", "g">>, <<".", "p", "n", "g">>,
       <<".", "g", "i", "f">>, <<".", "w", "e", "b", "p">>, <<".", "t", "i", "f", "f">>,
       <<".", "b", "m", "p">> >>
UnfoldAll(t) ==
    [i \in 1..Len(t) |->
        IF t[i] \in Lower THEN UpperSeq[CHOOSE k \in 1..26 : LowerSeq[k] = t[i]] ELSE t[i]]

RECURSIVE StripExtensionsFrom(_, _)
StripExtensionsFrom(id, k) ==
    IF k > Len(ImageExtensions) THEN id
    ELSE StripExtensionsFrom(
             TrimSuffix(TrimSuffix(id, ImageExtensions[k]), UnfoldAll(ImageExtensions[k])),
             k + 1)
\* a validation that checks the ID as it stands
removePotentialExtensions_None(id) == id

removePotentialExtensions(id) == StripExtensionsFrom(id, 1)

validatePhotoID(id) ==
    IF Len(id) < MinIDLength \/ Len(id) > MaxIDLength THEN FALSE
    ELSE IDPatternMatch(removePotentialExtensions(id))

validateAlbumID(id) ==
    IF id = <<>> THEN TRUE
    ELSE IF Len(id) < MinIDLength \/ Len(id) > MaxIDLength THEN FALSE
    ELSE IDPatternMatch(id)

validateLimit(limit) ==
    IF limit <= 0 THEN DefaultPhotoLimit
    ELSE IF limit > MaxPhotoLimit THEN MaxPhotoLimit
    ELSE limit

validateOffset(offset) == IF offset < MinPhotoOffset THEN MinPhotoOffset ELSE offset

\* validateAndSanitizeTitle / validateAndSanitizeDescription: TRUE when accepted
\* (every text of the model is valid UTF-8)
validateAndSanitizeTitle(title) ==
    ~(Len(title) > MaxPhotoTitleLength) /\ ~containsDangerousContent(title)
validateAndSanitizeDescription(description) ==
    ~(Len(description) > MaxPhotoDescriptionLength) /\ ~containsDangerousContent(description)

\* a validation that does not look at the album ID
ValidationErrors_TextsOnly(update) ==
    {f \in {"title", "description"} :
        /\ update[f] # <<>>
        /\ CASE f = "title"       -> ~validateAndSanitizeTitle(update[f][1])
             [] f = "description" -> ~validateAndSanitizeDescription(update[f][1])}

\* ValidatePhotoUpdate: the fields in error, and the update with the accepted
\* texts replaced by their sanitized values
ValidationErrors(update) ==
    {f \in {"title", "description", "album_id"} :
        /\ update[f] # <<>>
        /\ CASE f = "title"       -> ~validateAndSanitizeTitle(update[f][1])
             [] f = "description" -> ~validateAndSanitizeDescription(update[f][1])
             [] f = "album_id"    -> ~validateAlbumID(update[f][1])}

SanitizedUpdate(update) ==
    [f \in {"title", "description", "album_id"} |->
        IF f # "album_id" /\ update[f] # <<>> /\ f \notin ValidationErrors(update)
        THEN <<sanitizeText(update[f][1])>>
        ELSE update[f]]

(***************************************************************************)
(* The store: the Lychee tables this tool reads and writes.  Columns the    *)
(* operations only copy (owner, EXIF fields, updated_at, ...) are left out. *)
(***************************************************************************)
MaxCreatedAt == 2   \* creation timestamps are drawn from 1..MaxCreatedAt
MaxUpdates == 1     \* update requests served in one behaviour

P1 == <<"p", "1">>
P2 == <<"p", "2">>
P9 == <<"p", "9">>           \* an ID no photo has
A1 == <<"a", "1">>
A2 == <<"a", "2">>
T1 == <<"t", "1">>           \* a tag album
PhotoIDs == {P1, P2}
\* base_albums, and its two sub-tables: albums (normal) and tag_albums
base_albums == {A1, A2, T1}
tag_albums == {T1}

\* album titles, in lower-case letters (which every collation orders alike)
AlbumTitles == { <<"a">>, <<"a", "b">>, <<"b">> }
StoreAlbumTitles == (A1 :> <<"b">>) @@ (A2 :> <<"a", "b">>) @@ (T1 :> <<"a">>)

CameraTitle == <<"I", "M", "G", "_", "7", ".", "j", "p", "g">>
OtherCameraTitle == <<"C", "D", "5", "_", "5">>
HumanTitle == <<"F", "o", "g">>
StoreTitles == {CameraTitle, OtherCameraTitle, HumanTitle, <<>>}
StoreDescriptions == { <<>>, << <<>> >>, <<SomeText>> }

\* the patches of the update requests
PaddedHumanTitle == <<" ", "F", "o", "g", " ">>
ScriptTitle == <<"j", "a", "v", "a", "s", "c", "r", "i", "p", "t", ":">>
BadAlbumID == <<"a", ".", "1">>
\* texts one character longer than the limits
LongTitle == [i \in 1..(MaxPhotoTitleLength + 1) |-> "a"]
LongDescription == [i \in 1..(MaxPhotoDescriptionLength + 1) |-> "a"]
\* a well-formed album ID that names no album
A9 == <<"A", "9">>
RequestIDs == {P1, P2, P9}
\* the photos update requests name: P1 is edited, P2 stands by
UpdateIDs == {P1, P9}
PatchTitles == { <<>>, <<PaddedHumanTitle>> }
PatchDescriptions == { <<>>, <<SomeText>> }
PatchAlbums == { <<>>, <<A2>>, <<T1>> }
NoPatch == [title |-> <<>>, description |-> <<>>, album_id |-> <<>>]
\* every combination of fields present, and patches with the edge values
Patches ==
    [title : PatchTitles, description : PatchDescriptions, album_id : PatchAlbums]
    \cup { [NoPatch EXCEPT !.title = <<ScriptTitle>>],
           [NoPatch EXCEPT !.title = <<OtherCameraTitle>>],
           [NoPatch EXCEPT !.description = << <<>> >>],
           [NoPatch EXCEPT !.album_id = <<A1>>],
           [NoPatch EXCEPT !.album_id = << <<>> >>],
           [NoPatch EXCEPT !.album_id = <<BadAlbumID>>],
           [NoPatch EXCEPT !.album_id = <<A9>>],
           [NoPatch EXCEPT !.title = <<LongTitle>>],
           [NoPatch EXCEPT !.description = <<LongDescription>>],
           [title |-> <<ScriptTitle>>, description |-> <<SomeText>>,
            album_id |-> <<BadAlbumID>>] }

\* ValidatePhotoUpdate on each patch, evaluated once
ValidatedPatch ==
    [u \in Patches |-> [errors |-> ValidationErrors(u), applied |-> SanitizedUpdate(u)]]
        @@ <<>>

\* the titles a photo row can hold: the initial ones and the accepted patches'
StorableTitles ==
    StoreTitles \cup {ValidatedPatch[u].applied.title[1] :
                        u \in {v \in Patches : /\ v.title # <<>>
                                               /\ ValidatedPatch[v].errors = {}}}

\* the WHERE clause of each dialect's query on each title, evaluated once
\* (the clause reads no other column)
WhereTable ==
    [drv \in Drivers |->
        [t \in StorableTitles |-> WhereHolds(drv, DialectQuery(drv), [title |-> t])]
            @@ <<>>] @@ <<>>

\* IsGenericTitle on each title a photo row can hold, evaluated once
GenericTable ==
    [t \in StorableTitles |-> IsGenericTitle(t)] @@ <<>>

\* the rows of photo_album mirroring the photos' old_album_id
Mirror(ph) == {<<id, ph[id].old_album_id[1]>> : id \in {i \in DOMAIN ph : ph[i].old_album_id # <<>>}}

RowsOf(pa, id) == {r \in pa : r[1] = id}

(***************************************************************************)
(* backend/db/queries.go: statements and their execution.                  *)
(***************************************************************************)
\* The drivers hand the statement text to the server as written; '?' is a
\* placeholder for MySQL and SQLite, not for PostgreSQL (which reads $1).
PlaceholderRejected(drv) == drv = "postgres"

\* ORDER BY p.created_at DESC: the orders the engine may return the rows in
\* (rows with equal created_at come in an order the engine chooses)
RECURSIVE SeqsOver(_)
SeqsOver(S) ==
    IF S = {} THEN {<<>>}
    ELSE UNION {{<<x>> \o w : w \in SeqsOver(S \ {x})} : x \in S}

NewestFirst(ph, ids) ==
    {w \in SeqsOver(ids) :
        \A i \in 1..Len(w), j \in 1..Len(w) :
            i < j => ph[w[i]].created_at >= ph[w[j]].created_at}

\* the paging clauses appended to the query text, with their arguments
PagingClauses(limit, offset) ==
    IF limit > 0
    THEN <<[kw |-> "LIMIT", arg |-> limit]>>
            \o (IF offset > 0 THEN <<[kw |-> "OFFSET", arg |-> offset]>> ELSE <<>>)
    ELSE <<>>

\* a query that clamps its paging arguments before using them
Page_Clamped(w, limit, offset) ==
    LET l == validateLimit(limit)
        skip == validateOffset(offset)
    IN  SubSeq(w, skip + 1, IF skip + l < Len(w) THEN skip + l ELSE Len(w))

\* a query that drops the OFFSET clause
Page_NoOffset(w, limit, offset) ==
    IF limit > 0
    THEN SubSeq(w, 1, IF limit < Len(w) THEN limit ELSE Len(w))
    ELSE w

\* LIMIT ? [OFFSET ?], appended only when limit > 0 (and offset > 0)
Page(w, limit, offset) ==
    IF limit > 0
    THEN LET skip == IF offset > 0 THEN offset ELSE 0
         IN  SubSeq(w, skip + 1, IF skip + limit < Len(w) THEN skip + limit ELSE Len(w))
    ELSE w

\* the row GetPhotosNeedingMetadata / GetPhotoByID scan for photo id
ScanRow(ph, id) ==
    [id |-> id, title |-> ph[id].title, description |-> ph[id].description,
     album_id |-> ph[id].old_album_id]

\* DB.GetPhotosNeedingMetadata: the set of results it may return; each is
\* [err |-> TRUE] or [err |-> FALSE, rows |-> ...]
GetPhotosNeedingMetadata(drv, ph, albumID, limit, offset, fail) ==
    LET query == DialectQuery(drv)
        usesPlaceholder == albumID # <<>> \/ limit > 0
        matching == {id \in DOMAIN ph :
                        /\ WhereTable[drv][ph[id].title]
                        /\ albumID # <<>> => ph[id].old_album_id = albumID}
    IN  IF \/ fail
           \/ QueryRejected(drv, query)
           \/ usesPlaceholder /\ PlaceholderRejected(drv)
        THEN {[err |-> TRUE]}
        ELSE {[err |-> FALSE,
               rows |-> [k \in DOMAIN Page(w, limit, offset) |->
                            ScanRow(ph, Page(w, limit, offset)[k])]] :
                 w \in NewestFirst(ph, matching)}

\* DB.GetPhotoByID: "error", "none" (sql.ErrNoRows: nil, nil) or "row"
GetPhotoByID(drv, ph, id, fail) ==
    IF fail \/ PlaceholderRejected(drv) THEN [kind |-> "error"]
    ELSE IF id \notin DOMAIN ph THEN [kind |-> "none"]
    ELSE [kind |-> "row", row |-> ScanRow(ph, id)]

\* db.Exec of the n-th statement of a request returns an error: the server
\* rejects the text, or the storage fails on that statement (failAt)
ExecFails(drv, n, failAt) == failAt = n \/ PlaceholderRejected(drv)

\* a statement that appends the new description to the stored one
ExecUpdateAttrs_Append(ph, id, update) ==
    IF id \notin DOMAIN ph THEN ph
    ELSE [ph EXCEPT ![id] =
            [@ EXCEPT !.title = IF update.title # <<>> THEN update.title[1] ELSE @,
                      !.description =
                          IF update.description = <<>> THEN @
                          ELSE IF @ = <<>> THEN update.description
                          ELSE <<@[1] \o update.description[1]>>]]

\* a statement that writes all columns, the absent ones as empty
ExecUpdateAttrs_Replace(ph, id, update) ==
    IF id \notin DOMAIN ph THEN ph
    ELSE [ph EXCEPT ![id] =
            [@ EXCEPT !.title = IF update.title # <<>> THEN update.title[1] ELSE <<>>,
                      !.description = update.description]]

\* UPDATE photos SET title = ?, description = ? ... WHERE id = ?  (either or both)
ExecUpdateAttrs(ph, id, update) ==
    IF id \notin DOMAIN ph THEN ph
    ELSE [ph EXCEPT ![id] =
            [@ EXCEPT !.title = IF update.title # <<>> THEN update.title[1] ELSE @,
                      !.description = IF update.description # <<>>
                                      THEN update.description ELSE @]]

\* UPDATE photos SET old_album_id = ?, updated_at = NOW() WHERE id = ?
ExecSetAlbum(ph, photoID, albumID) ==
    IF photoID \notin DOMAIN ph THEN ph
    ELSE [ph EXCEPT ![photoID].old_album_id = <<albumID>>]

\* a reassignment that leaves the old rows in place
ExecDeleteRows_None(pa, photoID) == pa

\* DELETE FROM photo_album WHERE photo_id = ?
ExecDeleteRows(pa, photoID) == pa \ RowsOf(pa, photoID)

\* the albums table: the normal albums
albums == base_albums \ tag_albums

\* MySQL and PostgreSQL enforce the schema's foreign keys; SQLite, opened on
\* the bare database path, does not
EnforcesForeignKeys(drv) == drv # "sqlite"

\* the INSERT violates photo_album_photo_id_foreign or photo_album_album_id_foreign
InsertRejected(drv, ph, photoID, albumID) ==
    EnforcesForeignKeys(drv) /\ (photoID \notin DOMAIN ph \/ albumID \notin albums)

\* INSERT INTO photo_album (photo_id, album_id) VALUES (?, ?)
ExecInsertRow(pa, photoID, albumID) == pa \cup {<<photoID, albumID>>}

\* DB.UpdatePhotoAlbum, its statements numbered n+1, n+2, n+3 in the request
UpdatePhotoAlbum(drv, ph, pa, photoID, albumID, n, failAt) ==
    LET ph1 == ExecSetAlbum(ph, photoID, albumID)
        pa1 == ExecDeleteRows(pa, photoID)
        pa2 == ExecInsertRow(pa1, photoID, albumID)
    IN  IF ExecFails(drv, n + 1, failAt)
        THEN [photos |-> ph, photo_album |-> pa, err |-> TRUE,
              stmts |-> <<"SET_ALBUM">>]
        ELSE IF ExecFails(drv, n + 2, failAt)
        THEN [photos |-> ph1, photo_album |-> pa, err |-> TRUE,
              stmts |-> <<"SET_ALBUM", "DELETE_ROWS">>]
        ELSE IF ExecFails(drv, n + 3, failAt) \/ InsertRejected(drv, ph1, photoID, albumID)
        THEN [photos |-> ph1, photo_album |-> pa1, err |-> TRUE,
              stmts |-> <<"SET_ALBUM", "DELETE_ROWS", "INSERT_ROW">>]
        ELSE [photos |-> ph1, photo_album |-> pa2, err |-> FALSE,
              stmts |-> <<"SET_ALBUM", "DELETE_ROWS", "INSERT_ROW">>]

\* DB.UpdatePhoto
UpdatePhoto(drv, ph, pa, id, update, failAt) ==
    LET updateTitle == update.title # <<>>
        updateDescription == update.description # <<>>
        unchanged == [photos |-> ph, photo_album |-> pa, err |-> FALSE, stmts |-> <<>>]
    IN  IF ~updateTitle /\ ~updateDescription
        THEN IF update.album_id # <<>>
             THEN UpdatePhotoAlbum(drv, ph, pa, id, update.album_id[1], 0, failAt)
             ELSE unchanged
        ELSE IF ExecFails(drv, 1, failAt)
        THEN [unchanged EXCEPT !.err = TRUE, !.stmts = <<"UPDATE_ATTRS">>]
        ELSE LET ph1 == ExecUpdateAttrs(ph, id, update)
             IN  IF update.album_id # <<>>
                 THEN LET r == UpdatePhotoAlbum(drv, ph1, pa, id, update.album_id[1], 1, failAt)
                      IN  [r EXCEPT !.stmts = <<"UPDATE_ATTRS">> \o @]
                 ELSE [unchanged EXCEPT !.photos = ph1, !.stmts = <<"UPDATE_ATTRS">>]

\* the number of statements an update request issues when none fails,
\* the re-query included
StatementCount(update) ==
    (IF update.title # <<>> \/ update.description # <<>> THEN 1 ELSE 0)
        + (IF update.album_id # <<>> THEN 3 ELSE 0) + 1

\* ORDER BY title ASC on titles in lower-case letters
TitleRank(c) == CHOOSE k \in 1..26 : LowerSeq[k] = c
TitleLeq(a, b) ==
    \/ Len(a) <= Len(b) /\ SubSeq(b, 1, Len(a)) = a
    \/ \E k \in 1..(IF Len(a) < Len(b) THEN Len(a) ELSE Len(b)) :
          /\ SubSeq(a, 1, k - 1) = SubSeq(b, 1, k - 1)
          /\ TitleRank(a[k]) < TitleRank(b[k])

\* the orders the engine may return album rows ids in (equal titles come in
\* an order the engine chooses)
AlbumsByTitle(titles, ids) ==
    {w \in SeqsOver(ids) :
        \A i \in 1..Len(w), j \in 1..Len(w) :
            i < j => TitleLeq(titles[w[i]], titles[w[j]])}

\* a query without the tag-album condition
NotInTagAlbums_All(ids) == ids

\* WHERE id NOT IN (SELECT id FROM tag_albums)
NotInTagAlbums(ids) == {id \in ids : id \notin tag_albums}

\* DB.GetAlbums: the set of results it may return (the statement has neither
\* placeholder nor REGEXP; every driver runs it)
GetAlbums(titles, fail) ==
    IF fail THEN {[err |-> TRUE]}
    ELSE {[err |-> FALSE,
           rows |-> [k \in DOMAIN w |-> [id |-> w[k], title |-> titles[w[k]]]]] :
             w \in AlbumsByTitle(titles, NotInTagAlbums(base_albums))}

\* convertToSQLiteWithPhotoCounts: the six replacements of convertToSQLite
convertToSQLiteWithPhotoCounts(query) == convertToSQLite(query)

\* the ON condition's title disjuncts (those of WhereClauses) per dialect
PhotoCountsQuery(drv) ==
    CASE drv = "postgres" -> convertToPostgreSQL(WhereClauses)
      [] drv = "sqlite"   -> convertToSQLiteWithPhotoCounts(WhereClauses)
      [] OTHER            -> WhereClauses

\* a join on the album alone
JoinedPhotos_AnyTitle(drv, ph, a) ==
    {id \in DOMAIN ph : ph[id].old_album_id = <<a>>}

\* LEFT JOIN photos p ON a.id = p.old_album_id AND ( ... ): the photos joined
\* to album a
JoinedPhotos(drv, ph, a) ==
    {id \in DOMAIN ph :
        /\ ph[id].old_album_id = <<a>>
        /\ WhereHolds(drv, PhotoCountsQuery(drv), ph[id])}

\* DB.GetAlbumsWithPhotoCounts: COUNT(p.id) per album, HAVING COUNT(p.id) > 0
GetAlbumsWithPhotoCounts(drv, ph, titles, fail) ==
    LET counted == {a \in NotInTagAlbums(base_albums) : JoinedPhotos(drv, ph, a) # {}}
    IN  IF fail \/ QueryRejected(drv, PhotoCountsQuery(drv))
        THEN {[err |-> TRUE]}
        ELSE {[err |-> FALSE,
               rows |-> [k \in DOMAIN w |->
                            [id |-> w[k], title |-> titles[w[k]],
                             photo_count |-> Cardinality(JoinedPhotos(drv, ph, w[k]))]]] :
                 w \in AlbumsByTitle(titles, counted)}

(***************************************************************************)
(* The HTTP handlers (backend/handlers), one action each.  A request is    *)
(* served while no response is pending; Deliver hands the response over.   *)
(***************************************************************************)
\* PhotoWithSizeVariants.ToPhotoResponse (the fields the store decides)
ToPhotoResponse(row) == row

AlbumParams == { <<>>, A1, A2, BadAlbumID }
LimitParams == { <<>>, <<1>>, <<MaxPhotoLimit>>, <<MaxPhotoLimit + 1>> }
OffsetParams == { <<>>, <<1>> }

\* the rows photo P2 may hold initially: P1 takes every combination of
\* fields, P2 the combinations that matter next to it
SecondPhotoRows ==
    [title : {OtherCameraTitle},
     description : {<<SomeText>>},
     old_album_id : {<<A1>>},
     created_at : 1..MaxCreatedAt]

Init ==
    /\ driver \in Drivers
    /\ photos \in [PhotoIDs -> [title : StoreTitles,
                                description : StoreDescriptions,
                                old_album_id : { <<>>, <<A1>> },
                                created_at : 1..MaxCreatedAt]]
    /\ photos[P1].created_at = 1
    /\ photos[P2] \in SecondPhotoRows
    /\ \E extra \in SUBSET {<<P1, A2>>} :
          /\ extra # {} => photos[P1].old_album_id # <<>>
          /\ photo_album = Mirror(photos) \cup extra
    /\ album_title = StoreAlbumTitles
    /\ resp = NoResp
    /\ probe = NoProbe
    /\ verdict = [kind |-> "store", updates |-> 0, retitled |-> {}]

\* PhotoHandler.GetPhotosNeedingMetadata
ListNeedingMetadata(albumParam, limitParam, offsetParam, fail) ==
    /\ resp = NoResp
    /\ LET aid == sanitizeQueryParam(albumParam)
           albumID == IF aid # <<>> THEN <<aid>> ELSE <<>>
           limit == IF limitParam # <<>> THEN validateLimit(limitParam[1])
                    ELSE DefaultPhotoLimit
           offset == IF offsetParam # <<>> THEN validateOffset(offsetParam[1]) ELSE 0
           asked == [album_id |-> albumParam, limit |-> limitParam, offset |-> offsetParam]
           head == [op |-> "list", asked |-> asked, fault |-> fail,
                    album_id |-> albumID, limit |-> limit, offset |-> offset]
       IN  IF aid # <<>> /\ ~validateAlbumID(aid)
           THEN resp' = [op |-> "list", status |-> 400, asked |-> asked]
           ELSE \E r \in GetPhotosNeedingMetadata(driver, photos, albumID, limit, offset, fail) :
                   resp' = IF r.err
                           THEN head @@ [status |-> 500]
                           ELSE head @@
                                [status |-> 200,
                                 photos |-> [k \in DOMAIN r.rows |-> ToPhotoResponse(r.rows[k])],
                                 total |-> Len(r.rows)]
    /\ UNCHANGED <<driver, photos, photo_album, album_title, probe, verdict>>

\* PhotoHandler.GetPhotoByID
GetByID(id, fail) ==
    /\ resp = NoResp
    /\ LET r == GetPhotoByID(driver, photos, id, fail)
           head == [op |-> "get", id |-> id, fault |-> fail]
       IN  resp' = IF ~validatePhotoID(id) THEN head @@ [status |-> 400]
                   ELSE IF r.kind = "error" THEN head @@ [status |-> 500]
                   ELSE IF r.kind = "none" THEN head @@ [status |-> 404]
                   ELSE head @@ [status |-> 200, photo |-> ToPhotoResponse(r.row)]
    /\ UNCHANGED <<driver, photos, photo_album, album_title, probe, verdict>>

\* a handler that reads the photo for the response before it writes
UpdateOutcome_StaleRead(drv, ph, pa, id, update, failAt) ==
    LET errors == ValidatedPatch[update].errors
        applied == ValidatedPatch[update].applied
        w == UpdatePhoto(drv, ph, pa, id, applied, failAt)
        r == GetPhotoByID(drv, ph, id, failAt = Len(w.stmts) + 1)
        before == [photos |-> ph, photo_album |-> pa]
        head == [op |-> "update", id |-> id, update |-> update, before |-> before]
    IN  IF ~validatePhotoID(id) \/ errors # {}
        THEN [photos |-> ph, photo_album |-> pa,
              resp |-> head @@ [status |-> 400, errors |-> errors, stmts |-> <<>>,
                                failed |-> "NONE"]]
        ELSE [photos |-> w.photos, photo_album |-> w.photo_album,
              resp |-> head @@
                 (IF w.err
                  THEN [status |-> 500, applied |-> applied, stmts |-> w.stmts,
                        failed |-> w.stmts[Len(w.stmts)]]
                  ELSE IF r.kind = "error"
                  THEN [status |-> 500, applied |-> applied, stmts |-> w.stmts,
                        failed |-> "REQUERY"]
                  ELSE IF r.kind = "none"
                  THEN [status |-> 0, applied |-> applied, stmts |-> w.stmts,
                        failed |-> "NONE"]
                  ELSE [status |-> 200, applied |-> applied, stmts |-> w.stmts,
                        failed |-> "NONE", photo |-> ToPhotoResponse(r.row)])]

\* PhotoHandler.UpdatePhoto: validate, update, re-query, respond: the store it
\* leaves and the response it writes.  Status 0 stands for the handler's panic
\* on a nil photo (no response is written); failed names the statement whose
\* error the handler logged.
UpdateOutcome(drv, ph, pa, id, update, failAt) ==
    LET errors == ValidatedPatch[update].errors
        applied == ValidatedPatch[update].applied
        w == UpdatePhoto(drv, ph, pa, id, applied, failAt)
        r == GetPhotoByID(drv, w.photos, id, failAt = Len(w.stmts) + 1)
        before == [photos |-> ph, photo_album |-> pa]
        head == [op |-> "update", id |-> id, update |-> update, before |-> before]
    IN  IF ~validatePhotoID(id) \/ errors # {}
        THEN [photos |-> ph, photo_album |-> pa,
              resp |-> head @@ [status |-> 400, errors |-> errors, stmts |-> <<>>,
                                failed |-> "NONE"]]
        ELSE [photos |-> w.photos, photo_album |-> w.photo_album,
              resp |-> head @@
                 (IF w.err
                  THEN [status |-> 500, applied |-> applied, stmts |-> w.stmts,
                        failed |-> w.stmts[Len(w.stmts)]]
                  ELSE IF r.kind = "error"
                  THEN [status |-> 500, applied |-> applied, stmts |-> w.stmts,
                        failed |-> "REQUERY"]
                  ELSE IF r.kind = "none"
                  THEN [status |-> 0, applied |-> applied, stmts |-> w.stmts,
                        failed |-> "NONE"]
                  ELSE [status |-> 200, applied |-> applied, stmts |-> w.stmts,
                        failed |-> "NONE", photo |-> ToPhotoResponse(r.row)])]

\* a PATCH /api/photos/{id} request served.  verdict.retitled records the
\* photos whose stored title was last written by a successful update and is
\* one IsGenericTitle calls human-written.
Update(id, update, failAt) ==
    /\ resp = NoResp
    /\ verdict.updates < MaxUpdates
    /\ LET o == UpdateOutcome(driver, photos, photo_album, id, update, failAt)
           retitled ==
               IF /\ o.resp.status = 200
                  /\ o.resp.applied.title # <<>>
                  /\ ~GenericTable[o.resp.applied.title[1]]
               THEN verdict.retitled \cup {id}
               ELSE IF id \in DOMAIN photos /\ o.photos[id].title # photos[id].title
               THEN verdict.retitled \ {id}
               ELSE verdict.retitled
       IN  /\ photos' = o.photos
           /\ photo_album' = o.photo_album
           /\ resp' = o.resp
           /\ verdict' = [verdict EXCEPT !.updates = @ + 1, !.retitled = retitled]
    /\ UNCHANGED <<driver, album_title, probe>>

\* the response leaves the server
Deliver ==
    /\ resp # NoResp
    /\ resp' = NoResp
    /\ UNCHANGED <<driver, photos, photo_album, album_title, probe, verdict>>

Next ==
    \/ \E a \in AlbumParams : ListNeedingMetadata(a, <<>>, <<>>, FALSE)
    \/ \E l \in LimitParams, o \in OffsetParams : ListNeedingMetadata(<<>>, l, o, FALSE)
    \/ ListNeedingMetadata(<<>>, <<>>, <<>>, TRUE)
    \/ \E id \in RequestIDs, f \in BOOLEAN : GetByID(id, f)
    \/ \E id \in UpdateIDs, u \in Patches :
           \E failAt \in 0..StatementCount(ValidatedPatch[u].applied) : Update(id, u, failAt)
    \/ Deliver

Spec == Init /\ [][Next]_vars

(***************************************************************************)
(* The same PATCH sent twice in succession: the client, having read the    *)
(* response to an update, sends the request again.                         *)
(***************************************************************************)
UpdateAgain(failAt) ==
    /\ resp.op = "update"
    /\ LET o == UpdateOutcome(driver, photos, photo_album, resp.id, resp.update, failAt)
       IN  /\ photos' = o.photos
           /\ photo_album' = o.photo_album
           /\ resp' = [o.resp EXCEPT !.op = "update_again"]
                          @@ [first |-> [status |-> resp.status, failed |-> resp.failed]]
    /\ UNCHANGED <<driver, album_title, probe, verdict>>

NextTwice ==
    \/ \E id \in UpdateIDs, u \in Patches :
           \E failAt \in 0..StatementCount(ValidatedPatch[u].applied) : Update(id, u, failAt)
    \/ \E failAt \in 0..(IF resp.op = "update"
                           THEN StatementCount(ValidatedPatch[resp.update].applied)
                           ELSE 0) : UpdateAgain(failAt)

SpecTwice == Init /\ [][NextTwice]_vars

(***************************************************************************)
(* DB.GetPhotosNeedingMetadata called directly, with any paging arguments   *)
(* (the handler's validation is not in front of it).                       *)
(***************************************************************************)
EngineAlbums == { <<>>, <<A1>> }
EngineLimits == {-1, 0, 1, 2, MaxPhotoLimit + 1}
EngineOffsets == {-1, 0, 1}

EngineList(albumID, limit, offset, fail) ==
    /\ resp = NoResp
    /\ \E r \in GetPhotosNeedingMetadata(driver, photos, albumID, limit, offset, fail) :
          resp' = [op |-> "engine_list", album_id |-> albumID, limit |-> limit,
                   offset |-> offset, fault |-> fail,
                   clauses |-> PagingClauses(limit, offset),
                   err |-> r.err,
                   rows |-> IF r.err THEN <<>> ELSE r.rows]
    /\ UNCHANGED <<driver, photos, photo_album, album_title, probe, verdict>>

NextEngine ==
    \E a \in EngineAlbums, l \in EngineLimits, o \in EngineOffsets, f \in BOOLEAN :
        EngineList(a, l, o, f)

SpecEngine == Init /\ [][NextEngine]_vars

(***************************************************************************)
(* The album handlers, on stores whose albums and memberships vary.        *)
(***************************************************************************)
\* models.AlbumResponse{ID, Title}
ToAlbumResponse(row) == [id |-> row.id, title |-> row.title]

AlbumStoreTitles == {CameraTitle, OtherCameraTitle, HumanTitle}

InitAlbums ==
    /\ driver \in Drivers
    /\ photos \in [PhotoIDs -> [title : AlbumStoreTitles,
                                description : {<<SomeText>>},
                                old_album_id : { <<>>, <<A1>>, <<A2>>, <<T1>> },
                                created_at : {1}]]
    /\ photos[P2].old_album_id \in { <<A1>>, <<A2>> }
    /\ photo_album = {r \in Mirror(photos) : r[2] \in albums}
    /\ album_title \in [base_albums -> AlbumTitles]
    /\ resp = NoResp
    /\ probe = NoProbe
    /\ verdict = [kind |-> "store", updates |-> 0, retitled |-> {}]

\* AlbumHandler.GetAlbums
ListAlbums(fail) ==
    /\ resp = NoResp
    /\ \E r \in GetAlbums(album_title, fail) :
          resp' = IF r.err
                  THEN [op |-> "albums", fault |-> fail, status |-> 500]
                  ELSE [op |-> "albums", fault |-> fail, status |-> 200,
                        albums |-> [k \in DOMAIN r.rows |-> ToAlbumResponse(r.rows[k])]]
    /\ UNCHANGED <<driver, photos, photo_album, album_title, probe, verdict>>

\* AlbumHandler.GetAlbumsWithPhotoCounts; rows are the engine's rows, of which
\* the response body keeps ID and title
ListAlbumsWithEligiblePhotoCounts(fail) ==
    /\ resp = NoResp
    /\ \E r \in GetAlbumsWithPhotoCounts(driver, photos, album_title, fail) :
          resp' = IF r.err
                  THEN [op |-> "album_counts", fault |-> fail, status |-> 500]
                  ELSE [op |-> "album_counts", fault |-> fail, status |-> 200,
                        rows |-> r.rows,
                        albums |-> [k \in DOMAIN r.rows |-> ToAlbumResponse(r.rows[k])]]
    /\ UNCHANGED <<driver, photos, photo_album, album_title, probe, verdict>>

NextAlbums ==
    \/ \E f \in BOOLEAN : ListAlbums(f)
    \/ \E f \in BOOLEAN : ListAlbumsWithEligiblePhotoCounts(f)

SpecAlbums == InitAlbums /\ [][NextAlbums]_vars

(***************************************************************************)
(* The image URLs of a photo response.  The harness draws one photo's       *)
(* size_variants rows and the configured base URL (probe), and computes     *)
(* what the query scans and the response holds (verdict).                   *)
(***************************************************************************)
SizeVariantOriginal == 0
SizeVariantMedium2x == 3
SizeVariantMedium == 4
SizeVariantThumb == 6

\* strings.TrimPrefix
TrimPrefix(t, w) == IF HasPrefix(t, w) THEN SubSeq(t, Len(w) + 1, Len(t)) ELSE t

UploadsDir == <<"/", "u", "p", "l", "o", "a", "d", "s", "/">>

\* models.constructImageURL
constructImageURL(baseURL, imagePath) ==
    IF baseURL = <<>> \/ imagePath = <<>> THEN <<>>
    ELSE TrimSuffix(baseURL, <<"/">>) \o UploadsDir \o TrimPrefix(imagePath, <<"/">>)

\* LEFT JOIN size_variants sv ON p.id = sv.photo_id AND sv.type = type: the
\* short_path scanned, NULL (<<>>) when the photo has no such row
JoinedPath(variants, type) ==
    IF type \in DOMAIN variants THEN <<variants[type]>> ELSE <<>>

\* the three joins of the SELECT, scanned into ThumbnailPath, LargePath and
\* OriginalPath in this order
ScanSizeVariants(variants) ==
    [ThumbnailPath |-> JoinedPath(variants, 6),
     LargePath     |-> JoinedPath(variants, 3),
     OriginalPath  |-> JoinedPath(variants, 0)]

\* PhotoWithSizeVariants.ToPhotoResponse: ThumbnailURL and FullURL
ToPhotoResponseURLs(p, lycheeBaseURL) ==
    [thumbnail_url |-> IF p.ThumbnailPath # <<>> /\ p.ThumbnailPath[1] # <<>>
                       THEN constructImageURL(lycheeBaseURL, p.ThumbnailPath[1])
                       ELSE <<>>,
     full_url      |-> IF p.OriginalPath # <<>> /\ p.OriginalPath[1] # <<>>
                       THEN constructImageURL(lycheeBaseURL, p.OriginalPath[1])
                       ELSE <<>>]

VariantTypes == {SizeVariantOriginal, SizeVariantMedium2x, SizeVariantMedium, SizeVariantThumb}
\* the short_path of the row of each type: its own file, with or without a
\* leading slash
VariantPaths(type) ==
    LET name == CASE type = SizeVariantOriginal -> <<"o">>
                  [] type = SizeVariantMedium2x -> <<"x">>
                  [] type = SizeVariantMedium   -> <<"m">>
                  [] OTHER                      -> <<"t">>
    IN  {name, <<"/">> \o name}
VariantRows ==
    UNION {{v \in [S -> UNION {VariantPaths(t) : t \in S}] :
                \A t \in S : v[t] \in VariantPaths(t)} : S \in SUBSET VariantTypes}
BaseURLs == { <<"h">>, <<"h", "/">> }

InitVariants ==
    /\ driver \in {"mysql"}
    /\ probe \in [variants : VariantRows, base : BaseURLs]
    /\ verdict = NoVerdict
    /\ photos = << >>
    /\ photo_album = {}
    /\ album_title = << >>
    /\ resp = NoResp

\* a photo row is scanned and converted for the response
BuildPhotoResponse ==
    /\ verdict = NoVerdict
    /\ verdict' = [kind |-> "urls"]
                    @@ ToPhotoResponseURLs(ScanSizeVariants(probe.variants), probe.base)
    /\ UNCHANGED <<driver, photos, photo_album, album_title, resp, probe>>

NextVariants == BuildPhotoResponse

SpecVariants == InitVariants /\ [][NextVariants]_vars

(***************************************************************************)
(* Claims about the requests (checked under Spec).                         *)
(***************************************************************************)
Listed == resp.op = "list" /\ resp.status = 200
AtLeastZero(n) == IF n > 0 THEN n ELSE 0
AtMost(n, m) == IF n < m THEN n ELSE m
Updated == resp.op = "update"
ListedIDs == {resp.photos[k].id : k \in DOMAIN resp.photos}

\* C2: ListNeedingMetadata never returns a photo whose title is human-written
\* (IsGenericTitle is false) and whose description is non-empty.
C2_NoDescribedHumanTitle ==
    Listed =>
        \A k \in DOMAIN resp.photos :
            IsGenericTitle(resp.photos[k].title) \/ hasEmptyDescription(resp.photos[k])

\* C3: with no album filter and a page that holds every photo, a photo whose
\* description is null or empty is in the result of ListNeedingMetadata, even
\* when its title is human-written.
C3_EmptyDescriptionListed ==
    (/\ Listed
     /\ resp.album_id = <<>>
     /\ resp.offset = 0
     /\ resp.limit >= Cardinality(DOMAIN photos))
        => \A id \in DOMAIN photos : hasEmptyDescription(photos[id]) => id \in ListedIDs

\* C9: Update has patch semantics.  Whatever the outcome, a stored title,
\* description or album membership (foreign key and join rows) whose field is
\* absent from the patch is as before, and so is every other photo; an
\* accepted patch with neither title nor description issues no
\* photo-attributes statement; after a successful update the present fields
\* hold the patch's values.
C9_PatchSemantics ==
    Updated =>
        LET u == resp.update
            b == resp.before
            id == resp.id
        IN  /\ DOMAIN photos = DOMAIN b.photos
            /\ \A o \in DOMAIN photos \ {id} :
                  /\ photos[o] = b.photos[o]
                  /\ RowsOf(photo_album, o) = RowsOf(b.photo_album, o)
            /\ id \in DOMAIN photos =>
                  /\ u.title = <<>> => photos[id].title = b.photos[id].title
                  /\ u.description = <<>> =>
                        photos[id].description = b.photos[id].description
                  /\ u.album_id = <<>> =>
                        photos[id].old_album_id = b.photos[id].old_album_id
                  /\ photos[id].created_at = b.photos[id].created_at
            /\ u.album_id = <<>> => RowsOf(photo_album, id) = RowsOf(b.photo_album, id)
            /\ (u.title = <<>> /\ u.description = <<>>) =>
                  \A k \in DOMAIN resp.stmts : resp.stmts[k] # "UPDATE_ATTRS"
            /\ resp.status = 200 =>
                  /\ u.title # <<>> => photos[id].title = resp.applied.title[1]
                  /\ u.description # <<>> =>
                        photos[id].description = resp.applied.description

\* C9 witness: a successful update carrying only a title has changed the title
\* of a photo that has a description and an album
C9_Witness ==
    /\ Updated
    /\ resp.status = 200
    /\ resp.update.title # <<>>
    /\ resp.update.description = <<>>
    /\ resp.update.album_id = <<>>
    /\ photos[resp.id].title # resp.before.photos[resp.id].title
    /\ photos[resp.id].description = <<SomeText>>
    /\ photos[resp.id].old_album_id # <<>>
    /\ RowsOf(photo_album, resp.id) # {}

\* C10: after a successful Update that carries albumID = A, the photo's album
\* foreign key is A, the join relation holds exactly one row for the photo,
\* the row naming A, and the photo in the response shows A.
C10_MembershipConsistent ==
    (Updated /\ resp.status = 200 /\ resp.update.album_id # <<>>) =>
        LET A == resp.update.album_id[1]
        IN  /\ photos[resp.id].old_album_id = <<A>>
            /\ RowsOf(photo_album, resp.id) = {<<resp.id, A>>}
            /\ resp.photo.album_id = <<A>>

\* C10 witness: a photo that was in two albums, its foreign key naming the
\* first, has been moved to the second
C10_Witness ==
    /\ Updated
    /\ resp.status = 200
    /\ resp.update.album_id = <<A2>>
    /\ resp.before.photos[resp.id].old_album_id = <<A1>>
    /\ RowsOf(resp.before.photo_album, resp.id) = {<<resp.id, A1>>, <<resp.id, A2>>}
    /\ RowsOf(photo_album, resp.id) = {<<resp.id, A2>>}

\* C11: album reassignment is all-or-nothing.  When an accepted update that
\* carries an album does not succeed, the photo's foreign key and join rows
\* are as they were before the request.
C11_ReassignmentAtomic ==
    (/\ Updated
     /\ resp.update.album_id # <<>>
     /\ resp.status \notin {200, 400}
     /\ resp.id \in DOMAIN photos)
        => /\ photos[resp.id].old_album_id = resp.before.photos[resp.id].old_album_id
           /\ RowsOf(photo_album, resp.id) = RowsOf(resp.before.photo_album, resp.id)

\* C13: after a successful Update has set a photo's title to a human-written
\* value (one IsGenericTitle calls not generic), a ListNeedingMetadata call
\* without album filter omits that photo when its description is non-empty.
C13_RetitledOmitted ==
    (Listed /\ resp.album_id = <<>>) =>
        \A id \in verdict.retitled :
            ~hasEmptyDescription(photos[id]) => id \notin ListedIDs

\* C14: a ListNeedingMetadata request whose limit exceeds the documented
\* maximum page size of 100 is served (not rejected) with the limit clamped:
\* the executed query is limited to at most 100 rows and at most 100 photos
\* are returned.
C14_ClampedToDocumentedMax ==
    (/\ resp.op = "list"
     /\ resp.asked.limit # <<>>
     /\ resp.asked.limit[1] > DocumentedMaxLimit
     /\ ~resp.fault
     /\ driver = "mysql")
        => /\ resp.status = 200
           /\ resp.limit <= DocumentedMaxLimit
           /\ Len(resp.photos) <= DocumentedMaxLimit

\* C16: a ListNeedingMetadata request with an album ID, served without a
\* storage failure, succeeds (with an empty sequence when nothing matches);
\* every photo it returns has that album as its foreign key, and when the
\* page holds every photo, every photo of that album that needs metadata is
\* returned.
C16_AlbumFilter ==
    (/\ resp.op = "list"
     /\ resp.status # 400
     /\ resp.album_id # <<>>
     /\ ~resp.fault)
        => /\ resp.status = 200
           /\ \A k \in DOMAIN resp.photos : resp.photos[k].album_id = resp.album_id
           /\ (resp.offset = 0 /\ resp.limit >= Cardinality(DOMAIN photos)) =>
                 \A id \in DOMAIN photos :
                     (photos[id].old_album_id = resp.album_id /\ NeedsMetadata(photos[id]))
                         => id \in ListedIDs

\* C18: GetByID applies no eligibility filter and tells not-found from
\* failure.  Served without a storage failure, a request for the ID of an
\* existing photo returns that photo whether or not it needs metadata, and a
\* request for an ID no photo has is answered not-found (404), never with an
\* error.
C18_FoundOrNotFound ==
    (resp.op = "get" /\ ~resp.fault /\ resp.status # 400) =>
        IF resp.id \in DOMAIN photos
        THEN /\ resp.status = 200
             /\ resp.photo.id = resp.id
             /\ resp.photo.title = photos[resp.id].title
             /\ resp.photo.description = photos[resp.id].description
        ELSE resp.status = 404

\* the photos the query of the answered list request selects from the store
ListMatching ==
    {id \in DOMAIN photos :
        /\ WhereTable[driver][photos[id].title]
        /\ resp.album_id # <<>> => photos[id].old_album_id = resp.album_id}

EngineListed == resp.op = "engine_list"
\* the photos the query's WHERE clause selects from the store
EngineMatching ==
    {id \in DOMAIN photos :
        /\ WhereTable[driver][photos[id].title]
        /\ resp.album_id # <<>> => photos[id].old_album_id = resp.album_id}

\* C15 (as claimed): whatever limit and offset the engine is called with, the
\* executed query has a LIMIT between 1 and the maximum, any OFFSET it has is
\* at least 0, and the result holds at most the maximum number of photos.
C15_EngineReclamps ==
    EngineListed =>
        /\ \E k \in DOMAIN resp.clauses :
              /\ resp.clauses[k].kw = "LIMIT"
              /\ resp.clauses[k].arg \in 1..MaxPhotoLimit
        /\ \A k \in DOMAIN resp.clauses :
              resp.clauses[k].kw = "OFFSET" => resp.clauses[k].arg >= 0
        /\ Len(resp.rows) <= MaxPhotoLimit

\* C15 (amended): the engine uses its paging arguments as given.  A positive
\* limit is the LIMIT of the query, however large; with it, a positive offset
\* is the OFFSET and any other offset adds no clause.  With a limit of zero or
\* less the query has neither clause: the offset is ignored and every
\* matching photo is returned.
C15_EngineUsesArgumentsAsGiven ==
    EngineListed =>
        LET n == Cardinality(EngineMatching)
            skip == AtLeastZero(resp.offset)
        IN  /\ resp.limit > 0 =>
                  /\ resp.clauses[1] = [kw |-> "LIMIT", arg |-> resp.limit]
                  /\ Len(resp.clauses) = (IF resp.offset > 0 THEN 2 ELSE 1)
                  /\ resp.offset > 0 =>
                        resp.clauses[2] = [kw |-> "OFFSET", arg |-> resp.offset]
                  /\ ~resp.err =>
                        Len(resp.rows) = AtMost(resp.limit, AtLeastZero(n - skip))
            /\ resp.limit <= 0 =>
                  /\ resp.clauses = <<>>
                  /\ ~resp.err => Len(resp.rows) = n

\* C15 witness: called with limit 0 and offset 1 the engine has returned both
\* photos of the store
C15_Witness ==
    /\ EngineListed
    /\ resp.limit = 0
    /\ resp.offset = 1
    /\ ~resp.err
    /\ Len(resp.rows) = 2

(***************************************************************************)
(* Claims about the album lists (checked under SpecAlbums).                *)
(***************************************************************************)
AlbumIDs(rows) == {rows[k].id : k \in DOMAIN rows}
SortedByTitle(rows) ==
    \A i \in DOMAIN rows, j \in DOMAIN rows :
        i < j => /\ rows[i].id # rows[j].id
                 /\ TitleLeq(rows[i].title, rows[j].title)

\* C19: ListAlbums, served without a storage failure, returns exactly the
\* albums whose ID is not in tag_albums, each once and with its title, ordered
\* by title ascending.
C19_NormalAlbumsByTitle ==
    (resp.op = "albums" /\ ~resp.fault) =>
        /\ resp.status = 200
        /\ AlbumIDs(resp.albums) = {a \in base_albums : a \notin tag_albums}
        /\ \A k \in DOMAIN resp.albums :
              resp.albums[k].title = album_title[resp.albums[k].id]
        /\ SortedByTitle(resp.albums)

\* C19 witness: two normal albums have been returned in title order, which
\* is not their ID order, and the tag album, whose title sorts first, left out
C19_Witness ==
    /\ resp.op = "albums"
    /\ resp.status = 200
    /\ Len(resp.albums) = 2
    /\ resp.albums[1].id = A2
    /\ resp.albums[2].id = A1
    /\ album_title[T1] = <<"a">>
    /\ album_title[A2] = <<"a", "b">>
    /\ album_title[A1] = <<"b">>

\* the photos of album a that the query of ListNeedingMetadata selects
EligibleIn(a) ==
    {id \in DOMAIN photos :
        /\ photos[id].old_album_id = <<a>>
        /\ WhereTable[driver][photos[id].title]}

UpdatedAgain == resp.op = "update_again"
SameOutcome == resp.status = resp.first.status /\ resp.failed = resp.first.failed

\* C12: Update is idempotent.  When the same patch is applied to the same
\* photo twice in succession with the same outcome, the second application
\* leaves the stored titles, descriptions, album foreign keys and join rows
\* as the first left them; after two successful reassignments to the same
\* album the photo has exactly one join row.
C12_Idempotent ==
    (UpdatedAgain /\ SameOutcome) =>
        /\ photos = resp.before.photos
        /\ photo_album = resp.before.photo_album
        /\ (resp.status = 200 /\ resp.update.album_id # <<>>) =>
              RowsOf(photo_album, resp.id) = {<<resp.id, resp.update.album_id[1]>>}

\* C12 witness: a patch carrying title, description and album has succeeded
\* twice on a photo it changed the first time
C12_Witness ==
    /\ UpdatedAgain
    /\ resp.status = 200
    /\ resp.first.status = 200
    /\ resp.update.title # <<>>
    /\ resp.update.description # <<>>
    /\ resp.update.album_id = <<A2>>
    /\ photos[resp.id].title = HumanTitle
    /\ RowsOf(photo_album, resp.id) = {<<resp.id, A2>>}

(***************************************************************************)
(* Claims about the image URLs (checked under SpecVariants).               *)
(***************************************************************************)
\* base URL + "/uploads/" + the short_path of the row of the type, empty
\* when the photo has no such row
UrlOfVariant(type) ==
    IF type \in DOMAIN probe.variants
    THEN TrimSuffix(probe.base, <<"/">>) \o UploadsDir
            \o TrimPrefix(probe.variants[type], <<"/">>)
    ELSE <<>>

\* C21: the thumbnail URL of a photo response is built from the base URL and
\* the path of the photo's thumb size variant, the full-size URL from the base
\* URL and the path of its medium size variant; the path of the original is
\* never used for the full-size URL.
C21_ThumbAndMediumURLs ==
    verdict.kind = "urls" =>
        /\ verdict.thumbnail_url = UrlOfVariant(SizeVariantThumb)
        /\ verdict.full_url = UrlOfVariant(SizeVariantMedium)
        /\ SizeVariantOriginal \in DOMAIN probe.variants =>
              verdict.full_url # UrlOfVariant(SizeVariantOriginal)

(***************************************************************************)
(* Further claims about the requests (checked under Spec).                 *)
(***************************************************************************)
IsPrefixOf(a, b) == Len(a) <= Len(b) /\ SubSeq(b, 1, Len(a)) = a

\* C22: in an accepted Update request that carries a title or a description
\* and an album, the photo-attributes statement is issued first and the three
\* album statements after it, each only when the one before has succeeded;
\* when the request succeeds all four have run, and the photo in the response,
\* read after them, is the stored row: it shows the new title, the new
\* description and the new album.
C22_AttributesThenAlbumThenRequery ==
    (/\ Updated
     /\ resp.status # 400
     /\ resp.update.title # <<>> \/ resp.update.description # <<>>
     /\ resp.update.album_id # <<>>)
        => /\ resp.stmts # <<>>
           /\ IsPrefixOf(resp.stmts, <<"UPDATE_ATTRS", "SET_ALBUM", "DELETE_ROWS", "INSERT_ROW">>)
           /\ resp.status = 200 =>
                 /\ Len(resp.stmts) = 4
                 /\ resp.photo = ToPhotoResponse(ScanRow(photos, resp.id))
                 /\ resp.update.title # <<>> => resp.photo.title = resp.applied.title[1]
                 /\ resp.update.description # <<>> =>
                       resp.photo.description = resp.applied.description
                 /\ resp.photo.album_id = resp.update.album_id

\* C22 witness: a successful update has changed title, description and album
\* of a photo, and the response shows the three new values
C22_Witness ==
    /\ Updated
    /\ resp.status = 200
    /\ resp.photo.title = HumanTitle
    /\ resp.photo.description = <<SomeText>>
    /\ resp.photo.album_id = <<A2>>
    /\ resp.before.photos[resp.id].title = CameraTitle
    /\ resp.before.photos[resp.id].description = <<>>
    /\ resp.before.photos[resp.id].old_album_id = <<A1>>
    /\ Len(resp.stmts) = 4

C24_OnlyExistingNormalAlbums ==
    (Updated /\ resp.id \in DOMAIN photos) =>
        LET now == photos[resp.id].old_album_id
            was == resp.before.photos[resp.id].old_album_id
        IN  /\ now # was => (now # <<>> /\ now[1] \in albums)
            /\ \A row \in photo_album \ resp.before.photo_album : row[2] \in albums
            /\ (resp.update.album_id # <<>> /\ resp.update.album_id[1] \notin albums)
                  => /\ now = was
                     /\ RowsOf(photo_album, resp.id)
                            = RowsOf(resp.before.photo_album, resp.id)

\* C25: an Update for an ID that matches no photo ends in an error outcome
\* (not a success, not a crash of the handler) and writes nothing: the photo
\* rows are as before and the join relation has no row for the unknown ID.
C25_UnknownPhotoRejected ==
    (/\ Updated
     /\ resp.id \notin DOMAIN resp.before.photos
     /\ resp.status # 400)
        => /\ resp.status \in {404, 500}
           /\ photos = resp.before.photos
           /\ RowsOf(photo_album, resp.id) = {}

(***************************************************************************)
(* Two album reassignments of one photo on pooled connections.  The pool   *)
(* (SetMaxOpenConns(10)) gives each request its own connection; every      *)
(* db.Exec is its own autocommitted statement, so the three statements of  *)
(* one UpdatePhotoAlbum interleave freely with those of the other.         *)
(***************************************************************************)
Requests == {1, 2}
ConcurrentAlbums == {A1, A2}
ConcurrentRows == SUBSET {<<P1, A1>>, <<P1, A2>>}
ConcurrentPhoto(a) ==
    [title |-> CameraTitle, description |-> <<>>, old_album_id |-> a, created_at |-> 1]

\* probe: the album each request asks for; verdict: where each request is
InitConcurrent ==
    /\ driver \in Drivers
    /\ probe \in [kind : {"pair"}, photo : {P1}, album : [Requests -> ConcurrentAlbums]]
    /\ verdict = [kind |-> "pair", pc |-> [r \in Requests |-> "SET_ALBUM"]]
    /\ \E a \in {<<>>, <<A1>>} : photos = (P1 :> ConcurrentPhoto(a))
    /\ photo_album \in ConcurrentRows
    /\ album_title = StoreAlbumTitles
    /\ resp = NoResp

\* the statement of request r returned: an error ends UpdatePhotoAlbum
Advance(r, failed, next) ==
    verdict' = [verdict EXCEPT !.pc[r] = IF failed THEN "failed" ELSE next]

\* request r executes its UPDATE photos SET old_album_id
StepSetAlbum(r) ==
    /\ verdict.kind = "pair" /\ verdict.pc[r] = "SET_ALBUM"
    /\ photos' = IF PlaceholderRejected(driver) THEN photos
                 ELSE ExecSetAlbum(photos, probe.photo, probe.album[r])
    /\ Advance(r, PlaceholderRejected(driver), "DELETE_ROWS")
    /\ UNCHANGED <<driver, photo_album, album_title, resp, probe>>

\* request r executes its DELETE FROM photo_album
StepDeleteRows(r) ==
    /\ verdict.kind = "pair" /\ verdict.pc[r] = "DELETE_ROWS"
    /\ photo_album' = IF PlaceholderRejected(driver) THEN photo_album
                      ELSE ExecDeleteRows(photo_album, probe.photo)
    /\ Advance(r, PlaceholderRejected(driver), "INSERT_ROW")
    /\ UNCHANGED <<driver, photos, album_title, resp, probe>>

\* request r executes its INSERT INTO photo_album
StepInsertRow(r) ==
    /\ verdict.kind = "pair" /\ verdict.pc[r] = "INSERT_ROW"
    /\ LET rejected == \/ PlaceholderRejected(driver)
                       \/ InsertRejected(driver, photos, probe.photo, probe.album[r])
       IN  /\ photo_album' = IF rejected THEN photo_album
                             ELSE ExecInsertRow(photo_album, probe.photo, probe.album[r])
           /\ Advance(r, rejected, "done")
    /\ UNCHANGED <<driver, photos, album_title, resp, probe>>

NextConcurrent ==
    \E r \in Requests : StepSetAlbum(r) \/ StepDeleteRows(r) \/ StepInsertRow(r)

SpecConcurrent == InitConcurrent /\ [][NextConcurrent]_vars

(***************************************************************************)
(* Claims about concurrent reassignments (checked under SpecConcurrent)    *)
(***************************************************************************)
BothDone == verdict.kind = "pair" /\ \A r \in Requests : verdict.pc[r] = "done"

\* C26: when two Updates reassigning the same photo to different albums have
\* both completed successfully, whatever the interleaving of their
\* statements, the photo's foreign key names one album X and the join
\* relation holds exactly one row for the photo, naming X.
C26_OneAlbumAfterBoth ==
    (BothDone /\ probe.album[1] # probe.album[2]) =>
        \E X \in {probe.album[1], probe.album[2]} :
            /\ photos[probe.photo].old_album_id = <<X>>
            /\ RowsOf(photo_album, probe.photo) = {<<probe.photo, X>>}

(***************************************************************************)
(* A text saved, read back, and saved again as it was returned: the edit   *)
(* form is filled from the GET response and sent back in the next PATCH.   *)
(***************************************************************************)
MaxTextLen == 3
RoundTripChars == {"a", " ", "&", "<", "\r", "\n"}
RoundTripTexts == UNION {[1..n -> RoundTripChars] : n \in 0..MaxTextLen}
TextFields == {"title", "description"}

InitRoundTrip ==
    /\ driver \in Drivers
    /\ probe \in [kind : {"text"}, id : {P1}, field : TextFields, text : RoundTripTexts]
    /\ verdict = [kind |-> "roundtrip", pc |-> "save"]
    /\ photos = (P1 :> [title |-> CameraTitle, description |-> <<>>,
                        old_album_id |-> <<>>, created_at |-> 1])
    /\ photo_album = {}
    /\ album_title = StoreAlbumTitles
    /\ resp = NoResp

\* the text field of a photo response (description is nullable)
FieldOf(photo, field) ==
    IF field = "title" THEN photo.title
    ELSE IF photo.description = <<>> THEN <<>> ELSE photo.description[1]

\* PhotoHandler.UpdatePhoto on a patch that carries the one text field:
\* validate and sanitise, update, re-query, respond
PatchText(text, from, to) ==
    /\ verdict.kind = "roundtrip" /\ verdict.pc = from
    /\ LET update == [NoPatch EXCEPT ![probe.field] = <<text>>]
           errors == ValidationErrors(update)
           applied == SanitizedUpdate(update)
           w == UpdatePhoto(driver, photos, photo_album, probe.id, applied, 0)
           r == GetPhotoByID(driver, w.photos, probe.id, FALSE)
           head == [op |-> "update", id |-> probe.id, update |-> update]
       IN  IF errors # {}
           THEN /\ resp' = head @@ [status |-> 400, errors |-> errors]
                /\ verdict' = [verdict EXCEPT !.pc = "rejected"]
                /\ UNCHANGED <<photos, photo_album>>
           ELSE /\ photos' = w.photos
                /\ photo_album' = w.photo_album
                /\ IF w.err \/ r.kind = "error"
                   THEN /\ resp' = head @@ [status |-> 500]
                        /\ verdict' = [verdict EXCEPT !.pc = "failed"]
                   ELSE /\ resp' = head @@ [status |-> 200, photo |-> ToPhotoResponse(r.row)]
                        /\ verdict' = [verdict EXCEPT !.pc = to]
    /\ UNCHANGED <<driver, album_title, probe>>

\* the supplied text is saved
SaveText ==
    /\ verdict.kind = "roundtrip" /\ verdict.pc = "save"
    /\ PatchText(probe.text, "save", "read")

\* PhotoHandler.GetPhotoByID: the saved photo is read back
ReadBack ==
    /\ verdict.kind = "roundtrip" /\ verdict.pc = "read"
    /\ LET r == GetPhotoByID(driver, photos, probe.id, FALSE)
       IN  /\ r.kind = "row"
           /\ resp' = [op |-> "get", id |-> probe.id, status |-> 200,
                       photo |-> ToPhotoResponse(r.row)]
           /\ verdict' = [verdict EXCEPT !.pc = "resave"]
                            @@ [returned |-> FieldOf(ToPhotoResponse(r.row), probe.field)]
    /\ UNCHANGED <<driver, photos, photo_album, album_title, probe>>

\* the returned text is saved again
SaveReturned ==
    /\ verdict.kind = "roundtrip" /\ verdict.pc = "resave"
    /\ PatchText(verdict.returned, "resave", "done")

NextRoundTrip == SaveText \/ ReadBack \/ SaveReturned

SpecRoundTrip == InitRoundTrip /\ [][NextRoundTrip]_vars

(***************************************************************************)
(* Claims about the text round trip (checked under SpecRoundTrip)          *)
(***************************************************************************)
ReadDone == verdict.kind = "roundtrip" /\ verdict.pc \in {"resave", "done"}
Resaved == verdict.kind = "roundtrip" /\ verdict.pc = "done"
StoredText == FieldOf(ScanRow(photos, probe.id), probe.field)
\* the characters html.EscapeString rewrites
Escapable == {"&", "<", ">", "\"", "'"}
HasEscapable(t) == \E i \in 1..Len(t) : t[i] \in Escapable
\* the supplied text, trimmed and with its line endings normalised
TrimmedSupplied == NormalizeLineEndings(TrimSpace(probe.text))

\* C27 as stated: an accepted text is returned by GetByID exactly as supplied
\* apart from trimmed whitespace and normalised line endings, and saving the
\* returned value again leaves the stored value unchanged.
C27_RoundTripExact ==
    /\ ReadDone => verdict.returned = TrimmedSupplied
    /\ Resaved => StoredText = verdict.returned

\* C27 amended: the returned text is the supplied one trimmed, with line
\* endings normalised and with & < > " ' HTML-escaped: it is the trimmed,
\* normalised text exactly when the supplied text has none of these
\* characters, and saving the returned value again leaves the stored value
\* unchanged exactly in that case.
C27_RoundTripEscaped ==
    /\ ReadDone =>
          /\ (verdict.returned = TrimmedSupplied) <=> ~HasEscapable(probe.text)
          /\ \A i \in 1..Len(verdict.returned) :
                verdict.returned[i] \notin {"<", ">", "\"", "'", "\r"}
          /\ verdict.returned = TrimSpace(verdict.returned)
          /\ Len(verdict.returned) >= Len(TrimmedSupplied)
    /\ Resaved => ((StoredText = verdict.returned) <=> ~HasEscapable(probe.text))

\* C27 witness: " &a" was saved and returned as "&amp;a"; the returned text
\* has been saved again and is now stored as "&amp;amp;a"
C27_Witness ==
    /\ Resaved
    /\ probe.text = <<" ", "&", "a">>
    /\ verdict.returned = <<"&", "a", "m", "p", ";", "a">>
    /\ StoredText = <<"&", "a", "m", "p", ";", "a", "m", "p", ";", "a">>

(***************************************************************************)
(* backend/handlers/validation.go: the photo ID taken from a request path  *)
(***************************************************************************)
PhotosAPIPrefix == <<"/", "a", "p", "i", "/", "p", "h", "o", "t", "o", "s", "/">>
PhotosAPIPrefixLen == 12

\* strings.Index(s, "/"), 0 for Go's -1
SlashIndex(s) ==
    IF \E i \in 1..Len(s) : s[i] = "/"
    THEN CHOOSE i \in 1..Len(s) : s[i] = "/" /\ \A j \in 1..(i - 1) : s[j] # "/"
    ELSE 0

extractPhotoIDFromPath(path) ==
    IF Len(path) < PhotosAPIPrefixLen THEN [ok |-> FALSE, id |-> <<>>]
    ELSE LET rest == SubSeq(path, PhotosAPIPrefixLen + 1, Len(path))
             photoID == IF SlashIndex(rest) # 0
                        THEN SubSeq(rest, 1, SlashIndex(rest) - 1) ELSE rest
         IN  IF rest = <<>> THEN [ok |-> FALSE, id |-> <<>>]
             ELSE IF ~validatePhotoID(photoID) THEN [ok |-> FALSE, id |-> <<>>]
             ELSE [ok |-> TRUE, id |-> photoID]

\* the request paths tried: the prefix followed by up to MaxTokens tokens,
\* IDs at the length limits, and a path shorter than the prefix
MaxTokens == 3
PathTokens ==
    { <<"a">>, <<"Z">>, <<"7">>, <<"_">>, <<"-">>, <<".">>, <<"/">>, <<"%">>,
      <<".", "j", "p", "g">>, <<".", "P", "N", "G">>, <<".", "J", "p", "g">> }
RECURSIVE Segments(_)
Segments(n) ==
    IF n = 0 THEN {<<>>}
    ELSE Segments(n - 1) \cup {s \o t : s \in Segments(n - 1), t \in PathTokens}
Run(n) == [i \in 1..n |-> "a"]
RequestPaths ==
    {PhotosAPIPrefix \o s : s \in Segments(MaxTokens)}
    \cup {PhotosAPIPrefix \o Run(MaxIDLength), PhotosAPIPrefix \o Run(MaxIDLength + 1),
          PhotosAPIPrefix \o Run(MaxIDLength - 4) \o <<".", "j", "p", "g">>,
          PhotosAPIPrefix \o Run(MaxIDLength - 3) \o <<".", "j", "p", "g">>,
          <<"/", "a", "p", "i">>}

InitPath ==
    /\ driver \in {"mysql"}
    /\ probe \in [kind : {"path"}, path : RequestPaths]
    /\ verdict = NoVerdict
    /\ photos = << >>
    /\ photo_album = {}
    /\ album_title = << >>
    /\ resp = NoResp

\* the head of PhotoHandler.GetPhotoByID / UpdatePhoto: the ID is extracted;
\* an invalid one is answered 400, a valid one goes on to the store
ExtractID ==
    /\ probe.kind = "path"
    /\ verdict = NoVerdict
    /\ LET r == extractPhotoIDFromPath(probe.path)
       IN  verdict' = [kind |-> "path", ok |-> r.ok, id |-> r.id,
                       next |-> IF r.ok THEN "store" ELSE "400"]
    /\ UNCHANGED <<driver, photos, photo_album, album_title, resp, probe>>

NextPath == ExtractID

SpecPath == InitPath /\ [][NextPath]_vars

(***************************************************************************)
(* Claims about the extracted photo ID (checked under SpecPath)            *)
(***************************************************************************)
Extracted == verdict.kind = "path"
\* the ID segment of the path: what follows the prefix, up to the next slash
IDSegment ==
    LET rest == SubSeq(probe.path, Len(PhotosAPIPrefix) + 1, Len(probe.path))
        stop == {i \in 1..Len(rest) : rest[i] = "/"}
    IN  IF stop = {} THEN rest
        ELSE SubSeq(rest, 1, (CHOOSE i \in stop : \A j \in stop : i <= j) - 1)
IDChars == Alnum \cup {"_", "-"}
OnlyIDChars(s) == \A i \in 1..Len(s) : s[i] \in IDChars
\* an image file extension as written in lower or in upper case
ExtensionForms ==
    {ImageExtensions[k] : k \in 1..Len(ImageExtensions)}
    \cup {UnfoldAll(ImageExtensions[k]) : k \in 1..Len(ImageExtensions)}
RECURSIVE OnlyExtensions(_)
OnlyExtensions(s) ==
    \/ s = <<>>
    \/ \E e \in ExtensionForms :
          HasPrefix(s, e) /\ OnlyExtensions(SubSeq(s, Len(e) + 1, Len(s)))
\* letters, digits, underscore and hyphen (at least one), then image extensions
CoreThenExtensions(s) ==
    \E n \in 1..Len(s) :
        OnlyIDChars(SubSeq(s, 1, n)) /\ OnlyExtensions(SubSeq(s, n + 1, Len(s)))

MaxLoads == 2
MaxSaves == 1
P3 == <<"p", "3">>
\* the photos the server lists, in its order, and the album of each
ServerPhotos == <<P1, P2, P3>>
ServerAlbumOf == (P1 :> A1) @@ (P2 :> A2) @@ (P3 :> A2)
FilterAlbums == {A1, A2}
SelectableIndexes == -1..3
SelectableIDs == {P1, P2, P3, P9}

\* the list GET /api/photos/needsmetadata answers for the parameters, when
\* the photos in saved have been given their metadata
RECURSIVE ListFrom(_, _, _)
ListFrom(list, album_id, saved) ==
    IF list = <<>> THEN <<>>
    ELSE LET p == Head(list)
             keep == /\ p \notin saved
                     /\ album_id = <<>> \/ ServerAlbumOf[p] = album_id[1]
         IN  (IF keep THEN <<p>> ELSE <<>>) \o ListFrom(Tail(list), album_id, saved)
ResponseFor(album_id, saved) == ListFrom(ServerPhotos, album_id, saved)

InitFrontend ==
    /\ driver \in {"mysql"}
    /\ photos = << >>
    /\ photo_album = {}
    /\ album_title = << >>
    /\ resp = NoResp
    /\ verdict = [kind |-> "pinia", photos |-> <<>>, currentPhotoIndex |-> 0,
                  loading |-> FALSE, error |-> FALSE, albumId |-> <<>>]
    /\ probe = [kind |-> "network", loads |-> {}, updates |-> {}, saved |-> {},
                nloads |-> 0, nsaves |-> 0, failures |-> FALSE, moved |-> FALSE]

\* the getters
currentPhoto ==
    IF verdict.currentPhotoIndex + 1 \in 1..Len(verdict.photos)
    THEN <<verdict.photos[verdict.currentPhotoIndex + 1]>> ELSE <<>>
hasPhotos == Len(verdict.photos) > 0
hasPrevious == verdict.currentPhotoIndex > 0
hasNext == verdict.currentPhotoIndex < Len(verdict.photos) - 1

\* photos.findIndex(photo => photo.id === id), from 0; -1 when absent
FindIndex(list, id) ==
    IF \E i \in 1..Len(list) : list[i] = id
    THEN (CHOOSE i \in 1..Len(list) : list[i] = id /\ \A j \in 1..(i - 1) : list[j] # id) - 1
    ELSE -1

\* photos.splice(photoIndex, 1)
Splice(list, photoIndex) ==
    SubSeq(list, 1, photoIndex) \o SubSeq(list, photoIndex + 2, Len(list))

\* a store that leaves the index alone after the splice
AdjustIndex_Keep(index, length) == index

\* loadPhotos, after the list is replaced: reset when empty or out of bounds
ResetIndex(index, length) ==
    IF length = 0 THEN 0 ELSE IF index >= length THEN 0 ELSE index

\* updatePhoto, after the splice
AdjustIndex(index, length) ==
    IF index >= length THEN (IF length - 1 > 0 THEN length - 1 ELSE 0) ELSE index

\* loadPhotos up to its await: the request leaves with the filter of now
StartLoad(albumId) ==
    /\ verdict.kind = "pinia"
    /\ probe.nloads < MaxLoads
    /\ verdict' = [verdict EXCEPT !.loading = TRUE, !.error = FALSE, !.albumId = albumId]
    /\ probe' = [probe EXCEPT
                    !.loads = @ \cup {[n |-> probe.nloads + 1, album_id |-> albumId,
                                       saved |-> probe.saved]},
                    !.nloads = @ + 1]
    /\ UNCHANGED <<driver, photos, photo_album, album_title, resp>>

loadPhotos ==
    /\ verdict.kind = "pinia"
    /\ StartLoad(verdict.albumId)

setAlbumFilter(albumId) ==
    /\ verdict.kind = "pinia"
    /\ StartLoad(<<albumId>>)

clearFilter ==
    /\ verdict.kind = "pinia"
    /\ StartLoad(<<>>)

\* loadPhotos from the response on: the server answered at some moment
\* between the request and now
loadPhotosResolved ==
    /\ verdict.kind = "pinia"
    /\ \E l \in probe.loads :
         \E served \in {S \in SUBSET probe.saved : l.saved \subseteq S} :
           LET list == ResponseFor(l.album_id, served)
           IN  /\ verdict' = [verdict EXCEPT
                                !.photos = list,
                                !.currentPhotoIndex = ResetIndex(@, Len(list)),
                                !.loading = FALSE]
               /\ probe' = [probe EXCEPT !.loads = @ \ {l}]
    /\ UNCHANGED <<driver, photos, photo_album, album_title, resp>>

\* loadPhotos when the request fails
loadPhotosRejected ==
    /\ verdict.kind = "pinia"
    /\ \E l \in probe.loads :
           /\ verdict' = [verdict EXCEPT !.error = TRUE, !.loading = FALSE]
           /\ probe' = [probe EXCEPT !.loads = @ \ {l}, !.failures = TRUE]
    /\ UNCHANGED <<driver, photos, photo_album, album_title, resp>>

\* updatePhoto up to its await
updatePhoto(id) ==
    /\ verdict.kind = "pinia"
    /\ probe.nsaves < MaxSaves
    /\ id \notin probe.updates
    /\ probe' = [probe EXCEPT !.updates = @ \cup {id}, !.nsaves = @ + 1]
    /\ UNCHANGED <<driver, photos, photo_album, album_title, resp, verdict>>

\* updatePhoto from the response on: the photo leaves the list
updatePhotoResolved ==
    /\ verdict.kind = "pinia"
    /\ \E id \in probe.updates :
           LET photoIndex == FindIndex(verdict.photos, id)
               list == Splice(verdict.photos, photoIndex)
           IN  /\ verdict' = IF photoIndex # -1
                             THEN [verdict EXCEPT
                                     !.photos = list,
                                     !.currentPhotoIndex = AdjustIndex(@, Len(list))]
                             ELSE verdict
               \* moved: the splice left the index past the end and it was adjusted
               /\ probe' = [probe EXCEPT
                               !.updates = @ \ {id}, !.saved = @ \cup {id},
                               !.moved = @ \/ (/\ photoIndex # -1
                                               /\ verdict.currentPhotoIndex >= Len(list))]
    /\ UNCHANGED <<driver, photos, photo_album, album_title, resp>>

\* updatePhoto when the request fails: the error is thrown to the caller
updatePhotoRejected ==
    /\ verdict.kind = "pinia"
    /\ \E id \in probe.updates :
           probe' = [probe EXCEPT !.updates = @ \ {id}]
    /\ UNCHANGED <<driver, photos, photo_album, album_title, resp, verdict>>

selectPhoto(index) ==
    /\ verdict.kind = "pinia"
    /\ verdict' = IF index >= 0 /\ index < Len(verdict.photos)
                  THEN [verdict EXCEPT !.currentPhotoIndex = index] ELSE verdict
    /\ UNCHANGED <<driver, photos, photo_album, album_title, resp, probe>>

selectPhotoById(id) ==
    /\ verdict.kind = "pinia"
    /\ LET index == FindIndex(verdict.photos, id)
       IN  verdict' = IF index # -1
                      THEN [verdict EXCEPT !.currentPhotoIndex = index] ELSE verdict
    /\ UNCHANGED <<driver, photos, photo_album, album_title, resp, probe>>

nextPhoto ==
    /\ verdict.kind = "pinia"
    /\ verdict' = IF hasNext THEN [verdict EXCEPT !.currentPhotoIndex = @ + 1] ELSE verdict
    /\ UNCHANGED <<driver, photos, photo_album, album_title, resp, probe>>

previousPhoto ==
    /\ verdict.kind = "pinia"
    /\ verdict' = IF hasPrevious THEN [verdict EXCEPT !.currentPhotoIndex = @ - 1]
                  ELSE verdict
    /\ UNCHANGED <<driver, photos, photo_album, album_title, resp, probe>>

NextFrontend ==
    \/ loadPhotos
    \/ \E a \in FilterAlbums : setAlbumFilter(a)
    \/ clearFilter
    \/ loadPhotosResolved
    \/ loadPhotosRejected
    \/ \E id \in SelectableIDs : updatePhoto(id)
    \/ updatePhotoResolved
    \/ updatePhotoRejected
    \/ \E i \in SelectableIndexes : selectPhoto(i)
    \/ \E id \in SelectableIDs : selectPhotoById(id)
    \/ nextPhoto
    \/ previousPhoto

SpecFrontend == InitFrontend /\ [][NextFrontend]_vars

(***************************************************************************)
(* Claims about the photos store (checked under SpecFrontend)              *)
(***************************************************************************)
ThePiniaStore == verdict.kind = "pinia"

\* C29: after any sequence of store actions currentPhotoIndex is 0 when the
\* photo list is empty and otherwise lies in 0 .. photos.length - 1, so
\* currentPhoto is non-null whenever hasPhotos is true.
C29_IndexInBounds ==
    ThePiniaStore =>
        /\ Len(verdict.photos) = 0 => verdict.currentPhotoIndex = 0
        /\ Len(verdict.photos) > 0 =>
              /\ 0 <= verdict.currentPhotoIndex
              /\ verdict.currentPhotoIndex < Len(verdict.photos)
        /\ hasPhotos => currentPhoto # <<>>

\* C29 witness: the last of three photos was selected when its update
\* completed; it has left the list and the index has moved to the new last
C29_Witness ==
    /\ ThePiniaStore
    /\ probe.moved
    /\ probe.saved = {P3}
    /\ verdict.photos = <<P1, P2>>
    /\ verdict.currentPhotoIndex = 1

\* C30: when overlapping loads started by setAlbumFilter / clearFilter have
\* all completed, their responses having arrived in any order, the photo
\* list is the response for the store's current filter.albumId.
C30_ListMatchesFilter ==
    (/\ ThePiniaStore
     /\ probe.nloads > 0 /\ probe.loads = {}
     /\ ~probe.failures
     /\ probe.nsaves = 0)
        => verdict.photos = ResponseFor(verdict.albumId, {})

====
